---- MODULE Spec2Model ----
(***************************************************************************)
(* Scanner registration of src/puzzles/day19.rs: distance fingerprints,   *)
(* candidate matching, transformation search and the normalizer loop.     *)
(*                                                                         *)
(* Values.  A Position is a tuple <<x, y, z>>.  A HashSet is a set, a      *)
(* HashMap is a function.  Option: None is <<>>, Some(v) is <<v>>.         *)
(* The iteration order of a HashMap is not specified by the language: a    *)
(* Scanner carries it in the field "order", chosen when its map is built.  *)
(* iterations is the number of iterations the loop of normalize_scanners   *)
(* has made, modulo 2; run counts the calls of normalize_scanners;         *)
(* answers holds the numbers part_one and part_two have computed.          *)
(* The coordinates used here keep every intermediate value far below       *)
(* 2^31, so the i32 arithmetic of the source never overflows.              *)
(***************************************************************************)
EXTENDS Integers, Sequences, FiniteSets, TLC

VARIABLES scanners, normalized_scanners, to_normalize, pc, iterations,
          scanner, tried, result, transformation, run, answers,
          input, self, other, fwd, bwd, found,
          probe, rotated,
          reader, cursor, items,
          args, day, stdout, opened,
          die, rolls, players, status, turns, starting_positions,
          instructions, reactor, step, activated,
          text, column, chunks, opened_chunks, parse_result,
          drawn_numbers, board_input, boards, draws, play_mode, play_result, wins,
          diagnostic_report, numbers, bit_position, get_bit, rating,
          octopuses, cell, calls, flashing, flashes, before_step, step_count

vars == <<scanners, normalized_scanners, to_normalize, pc, iterations,
          scanner, tried, result, transformation, run, answers,
          input, self, other, fwd, bwd, found,
          probe, rotated,
          reader, cursor, items,
          args, day, stdout, opened,
          die, rolls, players, status, turns, starting_positions,
          instructions, reactor, step, activated,
          text, column, chunks, opened_chunks, parse_result,
          drawn_numbers, board_input, boards, draws, play_mode, play_result, wins,
          diagnostic_report, numbers, bit_position, get_bit, rating,
          octopuses, cell, calls, flashing, flashes, before_step, step_count>>

normalizerVars == <<scanners, normalized_scanners, to_normalize, iterations,
                    scanner, tried, result, transformation, run, answers>>

matcherVars == <<input, self, other, fwd, bwd, found>>

rotationVars == <<probe, rotated>>

parserVars == <<reader, cursor, items>>

cliVars == <<args, day, stdout, opened>>

gameVars == <<die, rolls, players, status, turns, starting_positions>>

reactorVars == <<instructions, reactor, step, activated>>

(* the variables of main.rs, day21.rs and day22.rs *)
chunkVars == <<text, column, chunks, opened_chunks, parse_result>>

bingoVars == <<drawn_numbers, board_input, boards, draws, play_mode, play_result, wins>>

diagnosticVars == <<diagnostic_report, numbers, bit_position, get_bit, rating>>

octopusVars == <<octopuses, cell, calls, flashing, flashes, before_step, step_count>>

(* the variables of day10.rs, day04.rs, day03.rs and day11.rs *)
puzzleVars == <<chunkVars, bingoVars, diagnosticVars, octopusVars>>

laterVars == <<cliVars, gameVars, reactorVars, puzzleVars>>

(* the variables of the programs other than day19.rs *)
otherVars == <<rotationVars, parserVars, laterVars>>

----------------------------------------------------------------------------
(* Bounds of the model *)

MaxScanners == 3

NumPoses == 3

MaxRuns == 2

MaxCoordinate == 1

MaxLines == 3

MaxLineLen == 2

MaxPositionLen == 6

MaxArgLen == 3

MaxStartingPosition == 10

MaxTextLen == 5

(* side of a generated bingo board (the puzzle plays boards of side 5) *)
BoardSize == 2

MaxBoards == 2

MaxDraws == 3

(* generated boards and draws use the numbers 0..MaxNumber *)
MaxNumber == 3

(* length of the binary strings of a generated diagnostic report *)
MaxBits == 2

MaxReportLen == 3

(* number of steps of a group of octopuses *)
MaxSteps == 2

MaxInstructions == 2

MaxX == 2

MaxY == 1

MaxZ == 1

(* Program constants *)

U8Max == 255

DieSides == 100

WinningScore == 1000

TrackLength == 10

MinCommonBeacons == 12

MinCommonDistances == 11

NumTransformations == 24

----------------------------------------------------------------------------
(* F applied to the value of v, which is computed once *)
Value(v, F(_)) == CHOOSE r \in {F(x) : x \in {v}} : TRUE

(* Option *)

None == <<>>

Some(v) == <<v>>

(* neither part of the puzzle has been computed *)
NoAnswers == [part_one |-> None, part_two |-> None]

IsSome(o) == o # <<>>

Unwrap(o) == o[1]

----------------------------------------------------------------------------
(* Position *)

Origin == <<0, 0, 0>>

Sub(p, q) == <<p[1] - q[1], p[2] - q[2], p[3] - q[3]>>

square_distance(b1, b2) ==
    (b1[1] - b2[1]) * (b1[1] - b2[1])
  + (b1[2] - b2[2]) * (b1[2] - b2[2])
  + (b1[3] - b2[3]) * (b1[3] - b2[3])

(* TRANSFORMATIONS[i - 1].transform(position) *)
TransformDuplicateEntry(i, position) ==
    LET x == position[1]
        y == position[2]
        z == position[3]
    IN  CASE i = 1  -> << x,  y,  z>>
          [] i = 2  -> << x, -z,  y>>
          [] i = 3  -> << x, -y, -z>>
          [] i = 4  -> << x,  z, -y>>
          [] i = 5  -> <<-y,  x,  z>>
          [] i = 6  -> << z,  x,  y>>
          [] i = 7  -> << y,  x, -z>>
          [] i = 8  -> <<-z,  x, -y>>
          [] i = 9  -> <<-x, -y,  z>>
          [] i = 10 -> <<-x, -z, -y>>
          [] i = 11 -> <<-x,  y, -z>>
          [] i = 12 -> <<-x,  z,  y>>
          [] i = 13 -> << y, -x,  z>>
          [] i = 14 -> << z, -x, -y>>
          [] i = 15 -> <<-y, -x, -z>>
          [] i = 16 -> <<-z, -x,  y>>
          [] i = 17 -> <<-z,  y,  x>>
          [] i = 18 -> << y,  z,  x>>
          [] i = 19 -> << z, -y,  x>>
          [] i = 20 -> <<-y, -z,  x>>
          [] i = 21 -> <<-z, -y, -x>>
          [] i = 22 -> <<-y,  z, -x>>
          [] i = 23 -> << y,  z,  x>>
          [] i = 24 -> << y, -z, -x>>

Transform(i, position) ==
    LET x == position[1]
        y == position[2]
        z == position[3]
    IN  CASE i = 1  -> << x,  y,  z>>
          [] i = 2  -> << x, -z,  y>>
          [] i = 3  -> << x, -y, -z>>
          [] i = 4  -> << x,  z, -y>>
          [] i = 5  -> <<-y,  x,  z>>
          [] i = 6  -> << z,  x,  y>>
          [] i = 7  -> << y,  x, -z>>
          [] i = 8  -> <<-z,  x, -y>>
          [] i = 9  -> <<-x, -y,  z>>
          [] i = 10 -> <<-x, -z, -y>>
          [] i = 11 -> <<-x,  y, -z>>
          [] i = 12 -> <<-x,  z,  y>>
          [] i = 13 -> << y, -x,  z>>
          [] i = 14 -> << z, -x, -y>>
          [] i = 15 -> <<-y, -x, -z>>
          [] i = 16 -> <<-z, -x,  y>>
          [] i = 17 -> <<-z,  y,  x>>
          [] i = 18 -> << y,  z,  x>>
          [] i = 19 -> << z, -y,  x>>
          [] i = 20 -> <<-y, -z,  x>>
          [] i = 21 -> <<-z, -y, -x>>
          [] i = 22 -> <<-y,  z, -x>>
          [] i = 23 -> << z,  y, -x>>
          [] i = 24 -> << y, -z, -x>>

----------------------------------------------------------------------------
(* HashMap / HashSet iteration *)

Orders == {"asc", "desc"}

Less(p, q) ==
    \/ p[1] < q[1]
    \/ p[1] = q[1] /\ p[2] < q[2]
    \/ p[1] = q[1] /\ p[2] = q[2] /\ p[3] < q[3]

(* the key an iterator over keys yields first *)
First(keys, order) ==
    CHOOSE k \in keys :
        \A l \in keys \ {k} : IF order = "asc" THEN Less(k, l) ELSE Less(l, k)

Before(p, q, order) == IF order = "asc" THEN Less(p, q) ELSE Less(q, p)

(* the keys of a map in its iteration order *)
Iter(keys, order) ==
    Value([k \in keys |-> Cardinality({l \in keys : Before(l, k, order)})],
          LAMBDA rank : [i \in 1..Cardinality(keys) |-> CHOOSE k \in keys : rank[k] = i - 1])

Range(s) == {s[i] : i \in DOMAIN s}

----------------------------------------------------------------------------
(* Distance fingerprinting *)

get_distances_keep_self(beacon, beacons) ==
    {square_distance(beacon, b) : b \in Range(beacons)}

get_distances(beacon, beacons) ==
    {square_distance(beacon, b) : b \in {c \in Range(beacons) : beacon # c}}

(* Scanner::new; order is the iteration order of the map just collected *)
ScannerNew(beacons, order) ==
    [beacons  |-> [beacon \in Range(beacons) |-> get_distances(beacon, beacons)],
     position |-> Origin,
     order    |-> order]

----------------------------------------------------------------------------
(* Candidate matcher *)

Min(a, b) == IF a < b THEN a ELSE b

have_common_distances_negated(d1, d2) ==
    Min(Cardinality({d \in d1 : d \in d2}), MinCommonDistances) # MinCommonDistances

have_common_distances_ten(d1, d2) ==
    Min(Cardinality({d \in d1 : d \in d2}), MinCommonDistances - 1) = MinCommonDistances - 1

have_common_distances(d1, d2) ==
    Min(Cardinality({d \in d1 : d \in d2}), MinCommonDistances) = MinCommonDistances

(* the keys of other whose fingerprint has common distances with `distances` *)
Candidates(distances, o) ==
    {b \in DOMAIN o.beacons : have_common_distances(distances, o.beacons[b])}

collect_swapped(candidates, order) ==
    [found_beacon \in {First(candidates[b], order) :
                          b \in {c \in DOMAIN candidates : candidates[c] # {}}}
        |-> CHOOSE b \in DOMAIN candidates :
               candidates[b] # {} /\ First(candidates[b], order) = found_beacon]

(* lines 189-196: each beacon with a candidate, paired with the candidate *)
(* find yields: the first in the iteration order of other.beacons          *)
collect(candidates, order) ==
    [beacon \in {b \in DOMAIN candidates : candidates[b] # {}}
        |-> First(candidates[beacon], order)]

(* lines 186-196: the map find_common_beacons collects *)
collect_common_beacons(s, o) ==
    Value([b \in DOMAIN s.beacons |-> Candidates(s.beacons[b], o)],
          LAMBDA candidates : collect(candidates, o.order))

accept_more_than(common_beacons) ==
    IF Cardinality(DOMAIN common_beacons) > MinCommonBeacons
    THEN Some(common_beacons) ELSE None

(* line 198 *)
accept(common_beacons) ==
    IF Cardinality(DOMAIN common_beacons) >= MinCommonBeacons
    THEN Some(common_beacons) ELSE None

find_common_beacons(s, o) == accept(collect_common_beacons(s, o))

----------------------------------------------------------------------------
(* Transformation search *)

RECURSIVE fold_while_keep_last(_, _, _)
fold_while_keep_last(diffs, k, scanner_position) ==
    IF k > Len(diffs) THEN scanner_position
    ELSE fold_while_keep_last(diffs, k + 1, Some(diffs[k]))

RECURSIVE fold_while(_, _, _)
(* the fold_while of get_scanner_position from the k-th diff on; *)
(* FoldWhile::Done(None) ends the fold with None                 *)
fold_while(diffs, k, scanner_position) ==
    IF k > Len(diffs) THEN scanner_position
    ELSE IF ~IsSome(scanner_position) THEN fold_while(diffs, k + 1, Some(diffs[k]))
    ELSE IF Unwrap(scanner_position) = diffs[k]
         THEN fold_while(diffs, k + 1, scanner_position)
         ELSE None

(* keys are the keys of the map common_beacons in its iteration order *)
get_scanner_position(common_beacons, keys, t) ==
    Value([k \in 1..Len(keys) |-> Sub(Transform(t, keys[k]), common_beacons[keys[k]])],
          LAMBDA diffs : fold_while(diffs, 1, None))

(* lines 83-86: find_map over TRANSFORMATIONS, given what                  *)
(* get_scanner_position returns for each of them                           *)
first_matching(position) ==
    IF \A t \in DOMAIN position : ~IsSome(position[t]) THEN None
    ELSE LET t == CHOOSE m \in DOMAIN position :
                     /\ IsSome(position[m])
                     /\ \A n \in 1..(m - 1) : ~IsSome(position[n])
         IN  Some(<<t, Unwrap(position[t])>>)

(* what get_scanner_position returns for every transformation *)
positions(common_beacons, keys) ==
    [t \in 1..NumTransformations |-> get_scanner_position(common_beacons, keys, t)]

(* Some(<<index in TRANSFORMATIONS, position>>) of the first transformation *)
(* for which get_scanner_position is Some; order is the iteration order of  *)
(* the map common_beacons                                                   *)
find_matching_transformation(common_beacons, order) ==
    Value(Iter(DOMAIN common_beacons, order),
          LAMBDA keys : Value(positions(common_beacons, keys), first_matching))

transform_shift_first(s, t, position, order) ==
    LET image(p) == Transform(t, Sub(p, position))
        keys     == {image(p) : p \in DOMAIN s.beacons}
    IN  [beacons  |-> [k \in keys |->
                          s.beacons[CHOOSE p \in DOMAIN s.beacons : image(p) = k]],
         position |-> position,
         order    |-> order]

(* Scanner::transform; order is the iteration order of the map collected *)
transform(s, t, position, order) ==
    LET image(p) == Sub(Transform(t, p), position)
        keys     == {image(p) : p \in DOMAIN s.beacons}
    IN  [beacons  |-> [k \in keys |->
                          s.beacons[CHOOSE p \in DOMAIN s.beacons : image(p) = k]],
         position |-> position,
         order    |-> order]

----------------------------------------------------------------------------
(* The two answers *)

get_all_beacons_first_only(scanners_) ==
    IF scanners_ = <<>> THEN {} ELSE DOMAIN scanners_[1].beacons

get_all_beacons(scanners_) ==
    UNION {DOMAIN scanners_[i].beacons : i \in DOMAIN scanners_}

Abs(n) == IF n < 0 THEN -n ELSE n

manhattan_distance(p, q) ==
    Abs(p[1] - q[1]) + Abs(p[2] - q[2]) + Abs(p[3] - q[3])

(* Iterator::max of the distances from the k-th on, m the maximum so far *)
RECURSIVE max(_, _, _)
max(distances, k, m) ==
    IF k > Len(distances) THEN m
    ELSE max(distances, k + 1,
             IF ~IsSome(m) \/ distances[k] >= Unwrap(m) THEN Some(distances[k]) ELSE m)

(* the cartesian product of the scanners with themselves, in its order *)
cartesian_product(n) == [k \in 1..(n * n) |-> <<((k - 1) \div n) + 1, ((k - 1) % n) + 1>>]

(* the Option that max returns; the caller unwraps it *)
find_highest_manhattan_distance(scanners_) ==
    max([k \in 1..(Len(scanners_) * Len(scanners_)) |->
            manhattan_distance(scanners_[cartesian_product(Len(scanners_))[k][1]].position,
                               scanners_[cartesian_product(Len(scanners_))[k][2]].position)],
        1, None)

----------------------------------------------------------------------------
(* Inputs: beacon clouds as scanner reports.  Cloud points 1..12 lie in    *)
(* the plane z = 0 with pairwise distinct distances; 13 and 14 mirror each *)
(* other in that plane; 15..26 lie on the x axis at the marks of a Golomb  *)
(* ruler; 27 is off that axis.                                             *)

Points ==
    << <<1, -21, 0>>, <<10, -34, 0>>, <<-31, 28, 0>>, <<-28, 6, 0>>,
       <<34, -33, 0>>, <<24, -13, 0>>, <<-36, -29, 0>>, <<15, 13, 0>>,
       <<-32, -10, 0>>, <<32, -25, 0>>, <<-12, 40, 0>>, <<40, 34, 0>>,
       <<-33, 33, 38>>, <<-33, 33, -38>>,
       <<-40, 0, 0>>, <<-38, 0, 0>>, <<-34, 0, 0>>, <<-16, 0, 0>>,
       <<-11, 0, 0>>, <<0, 0, 0>>, <<3, 0, 0>>, <<15, 0, 0>>,
       <<28, 0, 0>>, <<35, 0, 0>>, <<36, 0, 0>>, <<45, 0, 0>>,
       <<3, 11, -8>> >>

(* the points each report sees *)
Views ==
    << (1..12) \cup {14}, 1..12, 1..13, 1..14, 2..13, 2..12, 15..26, 15..27 >>

(* the orientation and the location of the reporting scanner *)
PoseRotation == <<1, 2, 18, 7, 21>>

PoseOffset == << <<0, 0, 0>>, <<5, -3, 7>>, <<-4, 6, 2>>, <<9, 1, -6>>, <<-7, -2, 3>> >>

Place(pose, p) ==
    LET r == Transform(PoseRotation[pose], p)
        o == PoseOffset[pose]
    IN  <<r[1] + o[1], r[2] + o[2], r[3] + o[3]>>

RECURSIVE SortedSeq(_)
SortedSeq(S) ==
    IF S = {} THEN <<>>
    ELSE LET m == CHOOSE x \in S : \A y \in S : x <= y
         IN  <<m>> \o SortedSeq(S \ {m})

(* the Vec<Position> parse_scanners hands to Scanner::new for a report *)
Report(view, pose) ==
    LET ids == SortedSeq(Views[view])
    IN  [k \in 1..Len(ids) |-> Place(pose, Points[ids[k]])]

Reports == {<<view, pose>> : view \in 1..Len(Views), pose \in 1..NumPoses}

(* the reports a puzzle input is made of *)
Catalogue == << <<1, 1>>, <<2, 3>>, <<3, 2>>, <<4, 3>>, <<5, 2>>, <<7, 1>> >>

----------------------------------------------------------------------------
(* The matcher and the transformation search applied to two reports, as    *)
(* the tests of day19.rs apply them.                                       *)

Idle == <<>>

(* the programs other than day19.rs have not started *)
CliIdle == args = Idle /\ day = Idle /\ stdout = Idle /\ opened = {}

GameIdle ==
    /\ die = 0 /\ rolls = 0 /\ players = Idle /\ status = Idle
    /\ turns = Idle /\ starting_positions = Idle

ReactorIdle == instructions = Idle /\ reactor = Idle /\ step = 0 /\ activated = Idle

ChunkIdle ==
    /\ text = Idle /\ column = 0 /\ chunks = Idle
    /\ opened_chunks = Idle /\ parse_result = Idle

BingoIdle ==
    /\ drawn_numbers = Idle /\ board_input = Idle /\ boards = Idle /\ draws = 0
    /\ play_mode = Idle /\ play_result = Idle /\ wins = Idle

DiagnosticIdle ==
    /\ diagnostic_report = Idle /\ numbers = Idle /\ bit_position = 0
    /\ get_bit = Idle /\ rating = Idle

OctopusIdle ==
    /\ octopuses = Idle /\ cell = 0 /\ calls = Idle /\ flashing = Idle /\ flashes = 0
    /\ before_step = Idle /\ step_count = 0

PuzzlesIdle == ChunkIdle /\ BingoIdle /\ DiagnosticIdle /\ OctopusIdle

LaterIdle == CliIdle /\ GameIdle /\ ReactorIdle /\ PuzzlesIdle

OthersIdle ==
    /\ probe = Idle /\ rotated = Idle
    /\ reader = Idle /\ cursor = 0 /\ items = Idle
    /\ LaterIdle

InitMatch ==
    /\ pc = "parsed"
    /\ OthersIdle
    /\ input \in Reports \X Reports
    /\ self = Idle /\ other = Idle /\ fwd = Idle /\ bwd = Idle /\ found = Idle
    /\ scanners = <<>> /\ normalized_scanners = <<>> /\ to_normalize = <<>>
    /\ iterations = 0 /\ run = 1 /\ answers = NoAnswers
    /\ scanner = None /\ tried = <<>> /\ result = None /\ transformation = None

(* Scanner::new on both reports *)
New ==
    /\ pc = "parsed"
    /\ \E o1 \in Orders, o2 \in Orders :
          /\ self'  = ScannerNew(Report(input[1][1], input[1][2]), o1)
          /\ other' = ScannerNew(Report(input[2][1], input[2][2]), o2)
    /\ pc' = "built"
    /\ UNCHANGED <<input, fwd, bwd, found>>
    /\ UNCHANGED <<normalizerVars, otherVars>>

(* self.find_common_beacons(&other) *)
FindCommonBeacons ==
    /\ pc = "built"
    /\ fwd' = [collected |-> collect_common_beacons(self, other),
               returned  |-> find_common_beacons(self, other)]
    /\ pc' = "matched"
    /\ UNCHANGED <<input, self, other, bwd, found>>
    /\ UNCHANGED <<normalizerVars, otherVars>>

(* other.find_common_beacons(&self) *)
FindCommonBeaconsReverse ==
    /\ pc = "matched"
    /\ bwd' = [collected |-> collect_common_beacons(other, self),
               returned  |-> find_common_beacons(other, self)]
    /\ pc' = "reversed"
    /\ UNCHANGED <<input, self, other, fwd, found>>
    /\ UNCHANGED <<normalizerVars, otherVars>>

(* find_matching_transformation(&common_beacons) after unwrap() *)
FindMatchingTransformation ==
    /\ pc = "reversed"
    /\ IsSome(fwd.returned)
    /\ \E order \in Orders :
          found' = find_matching_transformation(Unwrap(fwd.returned), order)
    /\ pc' = "searched"
    /\ UNCHANGED <<input, self, other, fwd, bwd>>
    /\ UNCHANGED <<normalizerVars, otherVars>>

NextMatch ==
    \/ New
    \/ FindCommonBeacons
    \/ FindCommonBeaconsReverse
    \/ FindMatchingTransformation

MatchSpec == InitMatch /\ [][NextMatch]_vars

----------------------------------------------------------------------------
(* normalize_scanners *)

(* the puzzle inputs: up to MaxScanners different reports, in any order *)
Inputs ==
    UNION {{c \in [1..n -> 1..Len(Catalogue)] :
               \A i \in 1..n, j \in 1..n : i # j => c[i] # c[j]} : n \in 0..MaxScanners}

(* Only the map of a scanner that is `other` in find_common_beacons is     *)
(* iterated with an effect (line 192), and that is a normalized scanner:    *)
(* the first input, or a scanner rebuilt by transform.  The order of the    *)
(* inputs is therefore drawn once, for all of them.                         *)
Init ==
    /\ pc = "start"
    /\ \E c \in Inputs, o \in Orders :
          scanners = [i \in DOMAIN c |->
                         ScannerNew(Report(Catalogue[c[i]][1], Catalogue[c[i]][2]), o)]
    /\ normalized_scanners = <<>> /\ to_normalize = <<>>
    /\ iterations = 0 /\ run = 1 /\ answers = NoAnswers
    /\ scanner = None /\ tried = <<>> /\ result = None /\ transformation = None
    /\ input = Idle /\ self = Idle /\ other = Idle
    /\ fwd = Idle /\ bwd = Idle /\ found = Idle
    /\ OthersIdle

(* lines 55-61: the two pools *)
Begin ==
    /\ pc = "start"
    /\ normalized_scanners' = IF scanners = <<>> THEN <<>> ELSE <<Head(scanners)>>
    /\ to_normalize' = IF scanners = <<>> THEN <<>> ELSE Tail(scanners)
    /\ pc' = "loop"
    /\ UNCHANGED <<scanners, iterations, scanner, tried, result, transformation, run,
                   answers>>
    /\ UNCHANGED <<matcherVars, otherVars>>

(* lines 64-66: find_map stops at the first normalized scanner for which *)
(* find_common_beacons is Some.  at: its index, 0 if there is none;        *)
(* tried: the maps collected by the calls made; result: what it returns    *)
find_first_consistent(collected) ==
    LET hits == {k \in DOMAIN collected : IsSome(accept(collected[k]))}
        good == {k \in hits :
                    IsSome(find_matching_transformation(Unwrap(accept(collected[k])), "asc"))}
        at   == IF hits = {} THEN 0
                ELSE IF good = {} THEN CHOOSE k \in hits : \A l \in hits : k <= l
                ELSE CHOOSE k \in good : \A l \in good : k <= l
    IN  [at     |-> at,
         tried  |-> [k \in 1..(IF at = 0 THEN Len(collected) ELSE at) |-> collected[k]],
         result |-> IF at = 0 THEN None ELSE accept(collected[at])]

find_first(collected) ==
    LET hits== {k \in DOMAIN collected : IsSome(accept(collected[k]))}
        at   == IF hits = {} THEN 0 ELSE CHOOSE k \in hits : \A l \in hits : k <= l
    IN  [at     |-> at,
         tried  |-> [k \in 1..(IF at = 0 THEN Len(collected) ELSE at) |-> collected[k]],
         result |-> IF at = 0 THEN None ELSE accept(collected[at])]

find_map(s, normalized) ==
    Value([k \in 1..Len(normalized) |-> collect_common_beacons(s, normalized[k])],
          find_first)

(* lines 67-69: the transformation searched for when find_map found a match *)
Search(r, order) ==
    IF IsSome(r) THEN find_matching_transformation(Unwrap(r), order) ELSE None

NormalizePushFront ==
    /\ pc = "loop"
    /\ to_normalize # <<>>
    /\ to_normalize' = Tail(to_normalize)
    /\ iterations' = 1 - iterations
    /\ \E s \in {Head(to_normalize)} : \E m \in {find_map(s, normalized_scanners)} :
           /\ IsSome(m.result)
           /\ \E o \in Orders : \E t \in {Search(m.result, o)} :
                 /\ IsSome(t)
                 /\ transformation' = t
                 /\ \E order \in Orders :
                       normalized_scanners' =
                          <<transform(s, Unwrap(t)[1], Unwrap(t)[2], order)>>
                             \o normalized_scanners
           /\ scanner' = Some(s)
           /\ tried' = m.tried
           /\ result' = m.result
    /\ UNCHANGED <<scanners, pc, run, answers>>
    /\ UNCHANGED <<matcherVars, otherVars>>

(* lines 63-71: an iteration of the loop that normalizes the popped scanner *)
Normalize ==
    /\ pc = "loop"
    /\ to_normalize # <<>>
    /\ to_normalize' = Tail(to_normalize)
    /\ iterations' = 1 - iterations
    /\ \E s \in {Head(to_normalize)} : \E m \in {find_map(s, normalized_scanners)} :
           /\ IsSome(m.result)
           /\ \E o \in Orders : \E t \in {Search(m.result, o)} :
                 /\ IsSome(t)
                 /\ transformation' = t
                 /\ \E order \in Orders :
                       normalized_scanners' =
                          Append(normalized_scanners,
                                 transform(s, Unwrap(t)[1], Unwrap(t)[2], order))
           /\ scanner' = Some(s)
           /\ tried' = m.tried
           /\ result' = m.result
    /\ UNCHANGED <<scanners, pc, run, answers>>
    /\ UNCHANGED <<matcherVars, otherVars>>

RequeueDrop ==
    /\ pc = "loop"
    /\ to_normalize # <<>>
    /\ to_normalize' = Tail(to_normalize)
    /\ normalized_scanners' = normalized_scanners
    /\ iterations' = 1 - iterations
    /\ \E s \in {Head(to_normalize)} : \E m \in {find_map(s, normalized_scanners)} :
           /\ \E o \in Orders : \E t \in {Search(m.result, o)} :
                 /\ ~IsSome(t)
                 /\ transformation' = t
           /\ scanner' = Some(s)
           /\ tried' = m.tried
           /\ result' = m.result
    /\ UNCHANGED <<scanners, pc, run, answers>>
    /\ UNCHANGED <<matcherVars, otherVars>>

RequeuePushFront ==
    /\ pc = "loop"
    /\ to_normalize # <<>>
    /\ to_normalize' = <<Head(to_normalize)>> \o Tail(to_normalize)
    /\ normalized_scanners' = normalized_scanners
    /\ iterations' = 1 - iterations
    /\ \E s \in {Head(to_normalize)} : \E m \in {find_map(s, normalized_scanners)} :
           /\ \E o \in Orders : \E t \in {Search(m.result, o)} :
                 /\ ~IsSome(t)
                 /\ transformation' = t
           /\ scanner' = Some(s)
           /\ tried' = m.tried
           /\ result' = m.result
    /\ UNCHANGED <<scanners, pc, run, answers>>
    /\ UNCHANGED <<matcherVars, otherVars>>

(* lines 63-74: an iteration of the loop that pushes the popped scanner back *)
Requeue ==
    /\ pc = "loop"
    /\ to_normalize # <<>>
    /\ to_normalize' = Append(Tail(to_normalize), Head(to_normalize))
    /\ normalized_scanners' = normalized_scanners
    /\ iterations' = 1 - iterations
    /\ \E s \in {Head(to_normalize)} : \E m \in {find_map(s, normalized_scanners)} :
           /\ \E o \in Orders : \E t \in {Search(m.result, o)} :
                 /\ ~IsSome(t)
                 /\ transformation' = t
           /\ scanner' = Some(s)
           /\ tried' = m.tried
           /\ result' = m.result
    /\ UNCHANGED <<scanners, pc, run, answers>>
    /\ UNCHANGED <<matcherVars, otherVars>>

(* line 77 *)
Return ==
    /\ pc = "loop"
    /\ to_normalize = <<>>
    /\ pc' = "done"
    /\ UNCHANGED <<normalizerVars, matcherVars, otherVars>>

Next ==
    \/ Begin
    \/ Normalize
    \/ Requeue
    \/ Return

Spec == Init /\ [][Next]_vars

(* the loop is the only thread and never pauses *)
FairSpec == Spec /\ WF_vars(Next)

(* normalize_scanners called again, on the scanners it returned *)
Rerun ==
    /\ pc = "done"
    /\ run < MaxRuns
    /\ run' = run + 1
    /\ scanners' = normalized_scanners
    /\ normalized_scanners' = <<>> /\ to_normalize' = <<>>
    /\ iterations' = 0
    /\ scanner' = None /\ tried' = <<>> /\ result' = None /\ transformation' = None
    /\ pc' = "start"
    /\ UNCHANGED answers
    /\ UNCHANGED <<matcherVars, otherVars>>

NextRerun ==
    \/ Next
    \/ Rerun

RerunSpec == Init /\ [][NextRerun]_vars

(* Day19::part_one on NORMALIZED_SCANNERS: the number of beacons *)
PartOne ==
    /\ pc = "done"
    /\ ~IsSome(answers.part_one)
    /\ answers' = [answers EXCEPT
                      !.part_one = Some(Cardinality(get_all_beacons(normalized_scanners)))]
    /\ UNCHANGED <<scanners, normalized_scanners, to_normalize, pc, iterations,
                   scanner, tried, result, transformation, run>>
    /\ UNCHANGED <<matcherVars, otherVars>>

(* Day19::part_two on NORMALIZED_SCANNERS: unwrap() panics on None *)
PartTwo ==
    /\ pc = "done"
    /\ ~IsSome(answers.part_two)
    /\ \E highest \in {find_highest_manhattan_distance(normalized_scanners)} :
          /\ answers' = [answers EXCEPT !.part_two = highest]
          /\ pc' = IF IsSome(highest) THEN pc ELSE "panicked"
    /\ UNCHANGED <<scanners, normalized_scanners, to_normalize, iterations,
                   scanner, tried, result, transformation, run>>
    /\ UNCHANGED <<matcherVars, otherVars>>

NextPuzzle ==
    \/ Next
    \/ PartOne
    \/ PartTwo

PuzzleSpec == Init /\ [][NextPuzzle]_vars

----------------------------------------------------------------------------
(* TRANSFORMATIONS applied to positions *)

(* day19.rs is not running *)
Day19Idle ==
    /\ scanners = <<>> /\ normalized_scanners = <<>> /\ to_normalize = <<>>
    /\ iterations = 0 /\ run = 1 /\ answers = NoAnswers
    /\ scanner = None /\ tried = <<>> /\ result = None /\ transformation = None
    /\ input = Idle /\ self = Idle /\ other = Idle
    /\ fwd = Idle /\ bwd = Idle /\ found = Idle

day19Vars == <<normalizerVars, matcherVars>>

Coordinates == (-MaxCoordinate)..MaxCoordinate

Positions == Coordinates \X Coordinates \X Coordinates

InitRotation ==
    /\ pc = "positions"
    /\ probe \in Positions \X Positions
    /\ rotated = Idle
    /\ reader = Idle /\ cursor = 0 /\ items = Idle
    /\ Day19Idle
    /\ LaterIdle

(* TRANSFORMATIONS[i].transform on both positions *)
Rotate ==
    /\ pc = "positions"
    /\ \E i \in 1..NumTransformations :
          rotated' = [index |-> i,
                      image |-> <<Transform(i, probe[1]), Transform(i, probe[2])>>]
    /\ pc' = "rotated"
    /\ UNCHANGED probe
    /\ UNCHANGED <<day19Vars, parserVars, laterVars>>

NextRotation == Rotate

RotationSpec == InitRotation /\ [][NextRotation]_vars

----------------------------------------------------------------------------
(* Parsing: input::read_lines::<u32> over the lines of a reader, and       *)
(* Position::from over one line.  A line is a sequence of characters.      *)

Digits == {"1"}

Whitespace == {" "}

(* the lines of a reader and the line of a position *)
LineChars == Digits \cup Whitespace \cup {"x"}

PositionChars == Digits \cup {",", "-", "x"}

Strings(chars, n) == UNION {[1..k -> chars] : k \in 0..n}

RECURSIVE trim_start(_)
trim_start(line) ==
    IF line # <<>> /\ Head(line) \in Whitespace THEN trim_start(Tail(line)) ELSE line

RECURSIVE trim_end(_)
trim_end(line) ==
    IF line # <<>> /\ line[Len(line)] \in Whitespace
    THEN trim_end(SubSeq(line, 1, Len(line) - 1)) ELSE line

trim(line) == trim_end(trim_start(line))

(* the number a string of digits writes *)
RECURSIVE Decimal(_)
Decimal(digits) ==
    IF digits = <<>> THEN 0
    ELSE 10 * Decimal(SubSeq(digits, 1, Len(digits) - 1))
            + (CHOOSE d \in 0..9 : ToString(d) = digits[Len(digits)])

(* str::parse::<u32>: Ok(n) is Some(n), Err is None *)
parse_u32(str) ==
    LET digits == IF str # <<>> /\ Head(str) = "+" THEN Tail(str) ELSE str
    IN  IF digits # <<>> /\ \A k \in 1..Len(digits) : digits[k] \in Digits
        THEN Some(Decimal(digits)) ELSE None

(* str::parse::<i32> *)
parse_i32(str) ==
    LET signed == str # <<>> /\ Head(str) \in {"+", "-"}
        digits == IF signed THEN Tail(str) ELSE str
    IN  IF digits # <<>> /\ \A k \in 1..Len(digits) : digits[k] \in Digits
        THEN Some(IF signed /\ Head(str) = "-" THEN -Decimal(digits) ELSE Decimal(digits))
        ELSE None

(* str::split(','): the pieces between the commas *)
RECURSIVE split(_, _)
split(str, piece) ==
    IF str = <<>> THEN <<piece>>
    ELSE IF Head(str) = "," THEN <<piece>> \o split(Tail(str), <<>>)
    ELSE split(Tail(str), Append(piece, Head(str)))

InitParse ==
    /\ \/ pc = "reading" /\ reader \in Strings(Strings(LineChars, MaxLineLen), MaxLines)
       \/ pc = "line" /\ reader \in Strings(Strings(PositionChars, MaxPositionLen), 1)
                      /\ reader # <<>>
    /\ cursor = 0
    /\ items = <<>>
    /\ probe = Idle /\ rotated = Idle
    /\ Day19Idle
    /\ LaterIdle

(* lines 21-28 for one line: trimmed, dropped when empty, parsed, dropped *)
(* when the parse is an Err, unwrapped otherwise                          *)
read_line(parsed) ==
    [pc |-> "reading",
     items |-> IF IsSome(parsed) THEN Append(items, Unwrap(parsed)) ELSE items]

(* read_lines::<u32> takes the next line of the reader *)
ReadLine ==
    /\ pc = "reading"
    /\ cursor < Len(reader)
    /\ cursor' = cursor + 1
    /\ \E line \in {trim(reader[cursor + 1])} :
          IF line = <<>>
          THEN UNCHANGED <<pc, items>>
          ELSE \E next \in {read_line(parse_u32(line))} :
                  /\ pc' = next.pc
                  /\ items' = next.items
    /\ UNCHANGED reader
    /\ UNCHANGED <<day19Vars, rotationVars, laterVars>>

(* line 29: collect() at the end of the reader *)
Collect ==
    /\ pc = "reading"
    /\ cursor = Len(reader)
    /\ pc' = "read"
    /\ UNCHANGED parserVars
    /\ UNCHANGED <<day19Vars, rotationVars, laterVars>>

(* Position::from(line): the first three pieces, each parsed and          *)
(* unwrapped; from_iter unwraps three items                               *)
PositionFrom ==
    /\ pc = "line"
    /\ \E pieces \in {split(reader[1], <<>>)} :
          IF /\ Len(pieces) >= 3
             /\ \A k \in 1..3 : IsSome(parse_i32(pieces[k]))
          THEN /\ items' = <<[k \in 1..3 |-> Unwrap(parse_i32(pieces[k]))]>>
               /\ pc' = "converted"
          ELSE /\ pc' = "panicked"
               /\ UNCHANGED items
    /\ cursor' = 1
    /\ UNCHANGED reader
    /\ UNCHANGED <<day19Vars, rotationVars, laterVars>>

NextParse ==
    \/ ReadLine
    \/ Collect
    \/ PositionFrom

ParseSpec == InitParse /\ [][NextParse]_vars

----------------------------------------------------------------------------
(* The command line of main.rs.  args is env::args(): args[1] is the name  *)
(* of the program, args[2] the first argument; an argument is a sequence   *)
(* of characters.  stdout is the sequence of lines printed, opened the     *)
(* set of input files the lazy statics have loaded.                        *)

ArgChars == {"0", "2", "9", "+", "x"}

Program == <<"a">>

DecimalDigits == {ToString(d) : d \in 0..9}

(* str::parse::<u8>: an optional "+", then digits writing at most u8::MAX *)
parse_u8(str) ==
    LET digits == IF str # <<>> /\ Head(str) = "+" THEN Tail(str) ELSE str
    IN  IF /\ digits # <<>>
           /\ \A k \in 1..Len(digits) : digits[k] \in DecimalDigits
           /\ Decimal(digits) <= U8Max
        THEN Some(Decimal(digits)) ELSE None

(* env::args().nth(1).and_then(|arg| arg.parse().ok()) *)
read_day_from_args(arguments) ==
    IF Len(arguments) >= 2 THEN parse_u8(arguments[2]) ELSE None

(* the puzzles of puzzles(), in the order of its array: the value of      *)
(* number() and the input file part_one and part_two load, if any         *)
Boxes ==
    << [name |-> "Day1", number |-> 1, file |-> Some("day01")],
       [name |-> "Day2", number |-> 2, file |-> Some("day02")],
       [name |-> "Day3", number |-> 3, file |-> Some("day03")],
       [name |-> "Day4", number |-> 4, file |-> Some("day04")],
       [name |-> "Day5", number |-> 5, file |-> Some("day05")],
       [name |-> "Day6", number |-> 6, file |-> Some("day06")],
       [name |-> "Day7", number |-> 7, file |-> Some("day07")],
       [name |-> "Day8", number |-> 8, file |-> Some("day08")],
       [name |-> "Day9", number |-> 9, file |-> Some("day09")],
       [name |-> "Day10", number |-> 10, file |-> Some("day10")],
       [name |-> "Day11", number |-> 11, file |-> None],
       [name |-> "Day12", number |-> 12, file |-> Some("day12")],
       [name |-> "Day13", number |-> 13, file |-> Some("day13")],
       [name |-> "Day14", number |-> 14, file |-> Some("day14")],
       [name |-> "Day15", number |-> 15, file |-> Some("day15")],
       [name |-> "Day16", number |-> 16, file |-> Some("day16")],
       [name |-> "Day17", number |-> 17, file |-> None],
       [name |-> "Day18", number |-> 18, file |-> Some("day18")],
       [name |-> "Day19", number |-> 19, file |-> Some("day19")],
       [name |-> "Day20", number |-> 20, file |-> Some("day20")],
       [name |-> "Day21", number |-> 21, file |-> None] >>

(* puzzles(): the boxes collected into a HashMap keyed by number(); a     *)
(* later box replaces an earlier one of the same key                      *)
puzzles ==
    [n \in {Boxes[k].number : k \in 1..Len(Boxes)} |->
        Boxes[CHOOSE k \in 1..Len(Boxes) :
                 /\ Boxes[k].number = n
                 /\ \A j \in 1..Len(Boxes) : Boxes[j].number = n => j <= k]]

(* HashMap::get *)
get_or_first(map, key) ==
    IF key \in DOMAIN map THEN Some(map[key]) ELSE Some(Boxes[1])

get(map, key) == IF key \in DOMAIN map THEN Some(map[key]) ELSE None

InitCli ==
    /\ pc = "main"
    /\ args \in {<<Program>>}
                \cup {<<Program, a>> : a \in Strings(ArgChars, MaxArgLen)}
                \cup {<<Program, a, b>> : a \in Strings(ArgChars, MaxArgLen),
                                          b \in {<<"2">>, <<"x">>}}
    /\ day = None
    /\ stdout = <<>>
    /\ opened = {}
    /\ Day19Idle
    /\ probe = Idle /\ rotated = Idle
    /\ reader = Idle /\ cursor = 0 /\ items = Idle
    /\ GameIdle /\ ReactorIdle /\ PuzzlesIdle

(* main, lines 11-13: puzzles() is built, the day is read and looked up *)
ReadDay ==
    /\ pc = "main"
    /\ day' = IF IsSome(read_day_from_args(args))
              THEN get(puzzles, Unwrap(read_day_from_args(args)))
              ELSE None
    /\ pc' = "selected"
    /\ UNCHANGED <<args, stdout, opened>>
    /\ UNCHANGED <<day19Vars, rotationVars, parserVars, gameVars, reactorVars, puzzleVars>>

(* main, line 14, on Some(puzzle): Puzzle::execute prints the two parts   *)
(* under self.number() and the duration                                   *)
Execute ==
    /\ pc = "selected"
    /\ IsSome(day)
    /\ stdout' = <<[number |-> Unwrap(day).number, part |-> 1],
                   [number |-> Unwrap(day).number, part |-> 2],
                   [done |-> TRUE]>>
    /\ opened' = IF IsSome(Unwrap(day).file) THEN {Unwrap(Unwrap(day).file)} ELSE {}
    /\ pc' = "exited"
    /\ UNCHANGED <<args, day>>
    /\ UNCHANGED <<day19Vars, rotationVars, parserVars, gameVars, reactorVars, puzzleVars>>

(* main, line 14, on None: map does not call the closure *)
Exit ==
    /\ pc = "selected"
    /\ ~IsSome(day)
    /\ pc' = "exited"
    /\ UNCHANGED cliVars
    /\ UNCHANGED <<day19Vars, rotationVars, parserVars, gameVars, reactorVars, puzzleVars>>

NextCli ==
    \/ ReadDay
    \/ Execute
    \/ Exit

CliSpec == InitCli /\ [][NextCli]_vars

----------------------------------------------------------------------------
(* The dice game of day21.rs with DeterministicDie<100>.  GameStatus:      *)
(* Playing(p) is <<"Playing", p>>, Over is <<"Over">>.  players is the     *)
(* array of the two players, players[p + 1] the player of index p.  turns  *)
(* is <<the number of calls of play_next_player_turn, the index of the     *)
(* player of the last call>>; starting_positions are the arguments of      *)
(* DiceGame::new.                                                          *)

Playing(p) == <<"Playing", p>>

Over == <<"Over">>

(* Player::new *)
PlayerNew(position) == [position |-> position, score |-> 0]

(* DeterministicDie::roll: the die after the roll, which is the face *)
die_roll(d) == IF d + 1 > DieSides THEN 1 ELSE d + 1

(* DiceGame::roll: three rolls of the die, added *)
roll(d, r) ==
    LET first == die_roll(d)
        second == die_roll(first)
        third == die_roll(second)
    IN  [die |-> third, rolls |-> r + 3, sum |-> first + second + third]

(* the loop of move_pawn *)
RECURSIVE wrap(_)
wrap(position) ==
    IF position > TrackLength THEN wrap(position - TrackLength) ELSE position

(* Player::move_pawn *)
move_pawn_modulo(player, rolled) ==
    LET position == (player.position + rolled) % TrackLength
    IN  [position |-> position, score |-> player.score + position]

move_pawn(player, rolled) ==
    LET position == wrap(player.position + rolled)
    IN  [position |-> position, score |-> player.score + position]

InitGame ==
    /\ pc = "playing"
    /\ starting_positions \in (1..MaxStartingPosition) \X (1..MaxStartingPosition)
    /\ die = DieSides
    /\ rolls = 0
    /\ players = <<PlayerNew(starting_positions[1]), PlayerNew(starting_positions[2])>>
    /\ status = Playing(0)
    /\ turns = <<0, 1>>
    /\ Day19Idle
    /\ probe = Idle /\ rotated = Idle
    /\ reader = Idle /\ cursor = 0 /\ items = Idle
    /\ CliIdle /\ ReactorIdle /\ PuzzlesIdle

(* one iteration of the loop of play: play_next_player_turn *)
PlayNextPlayerTurn ==
    /\ pc = "playing"
    /\ status # Over
    /\ \E p \in {status[2]} :
       \E rolled \in {roll(die, rolls)} :
       \E player \in {move_pawn(players[p + 1], rolled.sum)} :
          /\ die' = rolled.die
          /\ rolls' = rolled.rolls
          /\ players' = [players EXCEPT ![p + 1] = player]
          /\ status' = IF player.score >= WinningScore
                       THEN Over ELSE Playing((p + 1) % 2)
          /\ turns' = <<turns[1] + 1, p>>
    /\ UNCHANGED <<pc, starting_positions>>
    /\ UNCHANGED <<day19Vars, rotationVars, parserVars, cliVars, reactorVars, puzzleVars>>

(* play returns when the status is Over *)
Played ==
    /\ pc = "playing"
    /\ status = Over
    /\ pc' = "played"
    /\ UNCHANGED gameVars
    /\ UNCHANGED <<day19Vars, rotationVars, parserVars, cliVars, reactorVars, puzzleVars>>

NextGame ==
    \/ PlayNextPlayerTurn
    \/ Played

GameSpec == InitGame /\ [][NextGame]_vars

(* play runs on: the loop is the only code of its thread *)
FairGameSpec == GameSpec /\ WF_vars(NextGame)

----------------------------------------------------------------------------
(* The reactor of day22.rs.  A Range is <<start, end>>, a Cuboid a record  *)
(* of three ranges, an Instruction <<"On", cuboid>> or <<"Off", cuboid>>.  *)
(* A usize is held as its two's complement reading: -1 is usize::MAX.      *)
(* With the coordinates used here the i64 arithmetic never overflows and   *)
(* the magnitude of every usize reading stays far below 2^31.              *)

RangeNew(start, end) == <<start, end>>

contains(r, value) == r[1] <= value /\ value <= r[2]

range_intersects(r, o) == contains(r, o[1]) \/ contains(o, r[1])

(* Range::len: (end - start + 1) as usize *)
range_len(r) == r[2] - r[1] + 1

intersects(c, o) ==
    /\ range_intersects(c.x, o.x)
    /\ range_intersects(c.y, o.y)
    /\ range_intersects(c.z, o.z)

Larger(a, b) == IF a >= b THEN a ELSE b

intersection(c, o) ==
    IF intersects(c, o)
    THEN Some([x |-> RangeNew(Larger(c.x[1], o.x[1]), Min(c.x[2], o.x[2])),
               y |-> RangeNew(Larger(c.y[1], o.y[1]), Min(c.y[2], o.y[2])),
               z |-> RangeNew(Larger(c.z[1], o.z[1]), Min(c.z[2], o.z[2]))])
    ELSE None

(* Cuboid::len, and whether one of its two multiplications overflows *)
cuboid_len(c) == range_len(c.x) * range_len(c.y) * range_len(c.z)

(* a * b on usize is 2^64 or more *)
mul_overflows(a, b) ==
    \/ a < 0 /\ (b < 0 \/ b >= 2)
    \/ b < 0 /\ a >= 2

(* a + b on usize is 2^64 or more *)
add_overflows(a, b) ==
    \/ a < 0 /\ b < 0
    \/ a < 0 /\ b >= 0 /\ a + b >= 0
    \/ b < 0 /\ a >= 0 /\ a + b >= 0

cuboid_len_overflows(c) ==
    \/ mul_overflows(range_len(c.x), range_len(c.y))
    \/ mul_overflows(range_len(c.x) * range_len(c.y), range_len(c.z))

divide_range_keep_whole(r1, r2) == <<r1>>

divide_range(r1, r2) ==
    CASE r1[1] < r2[1] /\ r1[2] < r2[2] ->
            <<RangeNew(r1[1], r2[1] - 1), RangeNew(r2[1], r1[2])>>
      [] r1[1] < r2[1] /\ r1[2] = r2[2] ->
            <<RangeNew(r1[1], r2[1] - 1), r2>>
      [] r1[1] < r2[1] /\ r1[2] > r2[2] ->
            <<RangeNew(r1[1], r2[1] - 1), r2, RangeNew(r2[2] + 1, r1[2])>>
      [] r1[1] = r2[1] /\ r1[2] > r2[2] ->
            <<r2, RangeNew(r2[2] + 1, r1[2])>>
      [] r1[1] > r2[1] /\ r1[2] > r2[2] ->
            <<RangeNew(r1[1], r2[2]), RangeNew(r2[2] + 1, r1[2])>>
      [] OTHER -> <<r1>>

(* x_ranges.cartesian_product(y_ranges).cartesian_product(z_ranges) as     *)
(* cuboids: the last range varies fastest                                  *)
product(xs, ys, zs) ==
    [i \in 1..(Len(xs) * Len(ys) * Len(zs)) |->
        [x |-> xs[((i - 1) \div (Len(ys) * Len(zs))) + 1],
         y |-> ys[(((i - 1) \div Len(zs)) % Len(ys)) + 1],
         z |-> zs[((i - 1) % Len(zs)) + 1]]]

(* impl Sub for Cuboid *)
CuboidSub(c, rhs) ==
    IF IsSome(intersection(c, rhs))
    THEN SelectSeq(product(divide_range(c.x, rhs.x),
                           divide_range(c.y, rhs.y),
                           divide_range(c.z, rhs.z)),
                   LAMBDA piece : piece # Unwrap(intersection(c, rhs)))
    ELSE <<c>>

(* cuboids.into_iter().flat_map(|c| c - cuboid).collect() *)
RECURSIVE flat_map_sub(_, _)
flat_map_sub(cuboids, cuboid) ==
    IF cuboids = <<>> THEN <<>>
    ELSE CuboidSub(Head(cuboids), cuboid) \o flat_map_sub(Tail(cuboids), cuboid)

(* Reactor::execute *)
execute_push_only(cuboids, instruction) ==
    IF instruction[1] = "On"
    THEN Append(cuboids, instruction[2])
    ELSE flat_map_sub(cuboids, instruction[2])

execute(cuboids, instruction) ==
    IF instruction[1] = "On"
    THEN Append(flat_map_sub(cuboids, instruction[2]), instruction[2])
    ELSE flat_map_sub(cuboids, instruction[2])

(* Reactor::count_activated_cubes: the sum of the lengths, and whether an  *)
(* operation on the way overflows usize                                    *)
RECURSIVE sum(_, _)
sum(cuboids, total) ==
    IF cuboids = <<>> THEN [value |-> total, overflow |-> FALSE]
    ELSE LET rest == sum(Tail(cuboids), total + cuboid_len(Head(cuboids)))
         IN  [value |-> rest.value,
              overflow |-> \/ cuboid_len_overflows(Head(cuboids))
                           \/ add_overflows(total, cuboid_len(Head(cuboids)))
                           \/ rest.overflow]

count_activated_cubes(cuboids) == sum(cuboids, 0)

(* the input: ranges over small coordinates, the end before the start too *)
Ranges(n) == (0..n) \X (0..n)

Cuboids == [x : Ranges(MaxX), y : Ranges(MaxY), z : Ranges(MaxZ)]

Instructions == {"On", "Off"} \X Cuboids

Cube(lo, hi) == [x |-> RangeNew(lo, hi), y |-> RangeNew(lo, hi), z |-> RangeNew(lo, hi)]

(* SAMPLE_INSTRUCTIONS of the tests *)
Sample ==
    << <<"On", Cube(10, 12)>>,
       <<"On", Cube(11, 13)>>,
       <<"Off", Cube(9, 11)>>,
       <<"On", Cube(10, 10)>> >>

(* the subtractions of the tests, as instructions: c1 switched on, then  *)
(* c2 switched off, which leaves c1 - c2 in the reactor                    *)
Subtractions ==
    { << <<"On", Cube(0, 3)>>, <<"Off", Cube(2, 4)>> >>,
      << <<"On", Cube(0, 3)>>, <<"Off", Cube(0, 4)>> >> }

InitReactor ==
    /\ pc = "executing"
    /\ instructions \in Strings(Instructions, MaxInstructions)
                         \cup {Sample} \cup Subtractions
    /\ reactor = <<>>
    /\ step = 0
    /\ activated = None
    /\ Day19Idle
    /\ probe = Idle /\ rotated = Idle
    /\ reader = Idle /\ cursor = 0 /\ items = Idle
    /\ CliIdle /\ GameIdle /\ PuzzlesIdle

(* execute_all: one step of the fold *)
ExecuteNext ==
    /\ pc = "executing"
    /\ step < Len(instructions)
    /\ step' = step + 1
    /\ reactor' = execute(reactor, instructions[step + 1])
    /\ UNCHANGED <<pc, instructions, activated>>
    /\ UNCHANGED <<day19Vars, rotationVars, parserVars, cliVars, gameVars, puzzleVars>>

(* count_activated_cubes on the result of execute_all.  An overflow panics *)
(* in a build with overflow checks and wraps in a build without them.      *)
CountActivatedCubes ==
    /\ pc = "executing"
    /\ step = Len(instructions)
    /\ \E count \in {count_activated_cubes(reactor)} :
       \E overflow_checks \in BOOLEAN :
          IF overflow_checks /\ count.overflow
          THEN pc' = "panicked" /\ UNCHANGED activated
          ELSE pc' = "counted" /\ activated' = Some(count.value)
    /\ UNCHANGED <<instructions, reactor, step>>
    /\ UNCHANGED <<day19Vars, rotationVars, parserVars, cliVars, gameVars, puzzleVars>>

NextReactor ==
    \/ ExecuteNext
    \/ CountActivatedCubes

ReactorSpec == InitReactor /\ [][NextReactor]_vars

----------------------------------------------------------------------------
(* Everything above: day19.rs, the rotations, the parsers, main.rs,       *)
(* day21.rs and day22.rs                                                   *)

formerVars == <<day19Vars, rotationVars, parserVars, cliVars, gameVars, reactorVars>>

FormerIdle ==
    /\ Day19Idle
    /\ probe = Idle /\ rotated = Idle
    /\ reader = Idle /\ cursor = 0 /\ items = Idle
    /\ CliIdle /\ GameIdle /\ ReactorIdle

----------------------------------------------------------------------------
(* The chunk parser of day10.rs.  text is the line, a sequence of          *)
(* characters, and column the number of characters the loop has taken.     *)
(* A Chunk is a record of its OpeningChar and its children.  The result:   *)
(* Ok(chunks) is <<"Ok", chunks>>, the errors are                          *)
(* <<"Incomplete", opened_chunks>>, <<"WrongOpeningChar", column, actual>> *)
(* and <<"WrongClosingChar", column, expected, actual>>.                   *)

ChunkChars == {"(", ")", "[", "]", "x"}

(* SAMPLE[0] and SAMPLE[2] of the tests *)
SampleLines ==
    { << "[", "(", "{", "(", "<", "(", "(", ")", ")", "[", "]", ">",
         "[", "[", "{", "[", "]", "{", "<", "(", ")", "<", ">", ">" >>,
      << "{", "(", "[", "(", "<", "{", "}", "[", "<", ">", "[", "]",
         "}", ">", "{", "[", "]", "{", "[", "(", "<", "(", ")", ">" >> }

parse_opening_char(c) ==
    CASE c = "(" -> Some("Parenthesis")
      [] c = "[" -> Some("Bracket")
      [] c = "{" -> Some("Brace")
      [] c = "<" -> Some("Chevron")
      [] OTHER -> None

(* OpeningChar::closing_char *)
closing_char_round(opening_char) == ")"

closing_char(opening_char) ==
    CASE opening_char = "Parenthesis" -> ")"
      [] opening_char = "Bracket" -> "]"
      [] opening_char = "Brace" -> "}"
      [] opening_char = "Chevron" -> ">"

(* Chunk::new *)
ChunkNew(opening_char) == [opening_char |-> opening_char, children |-> <<>>]

(* Chunk::add_child *)
add_child(parent, child) == [parent EXCEPT !.children = Append(@, child)]

wrong_opening(col, actual) == <<"WrongOpeningChar", col, actual>>

wrong_closing(col, expected, actual) == <<"WrongClosingChar", col, expected, actual>>

InitChunks ==
    /\ pc = "chunks"
    /\ text \in Strings(ChunkChars, MaxTextLen) \cup SampleLines
    /\ column = 0
    /\ chunks = <<>>
    /\ opened_chunks = <<>>
    /\ parse_result = None
    /\ FormerIdle
    /\ BingoIdle /\ DiagnosticIdle /\ OctopusIdle

(* one iteration of the loop of parse_line_chunks, on (column, c) *)
ParseChar ==
    /\ pc = "chunks"
    /\ column < Len(text)
    /\ column' = column + 1
    /\ \E c \in {text[column + 1]} :
          IF IsSome(parse_opening_char(c))
          THEN /\ opened_chunks' = Append(opened_chunks, ChunkNew(Unwrap(parse_opening_char(c))))
               /\ UNCHANGED <<pc, chunks, parse_result>>
          ELSE IF opened_chunks # <<>>
          THEN \E chunk \in {opened_chunks[Len(opened_chunks)]} :
               \E popped \in {SubSeq(opened_chunks, 1, Len(opened_chunks) - 1)} :
                  IF c = closing_char(chunk.opening_char)
                  THEN IF popped # <<>>
                       THEN /\ opened_chunks' =
                                 [popped EXCEPT ![Len(popped)] = add_child(@, chunk)]
                            /\ UNCHANGED <<pc, chunks, parse_result>>
                       ELSE /\ opened_chunks' = popped
                            /\ chunks' = Append(chunks, chunk)
                            /\ UNCHANGED <<pc, parse_result>>
                  ELSE /\ parse_result' = Some(wrong_closing(column + 1,
                                              closing_char(chunk.opening_char), c))
                       /\ pc' = "chunks_parsed"
                       /\ opened_chunks' = popped
                       /\ UNCHANGED chunks
          ELSE /\ parse_result' = Some(wrong_opening(column + 1, c))
               /\ pc' = "chunks_parsed"
               /\ UNCHANGED <<chunks, opened_chunks>>
    /\ UNCHANGED text
    /\ UNCHANGED <<formerVars, bingoVars, diagnosticVars, octopusVars>>

(* lines 78-82: the line has been read to its end *)
ParseEnd ==
    /\ pc = "chunks"
    /\ column = Len(text)
    /\ parse_result' = IF opened_chunks # <<>>
                       THEN Some(<<"Incomplete", opened_chunks>>)
                       ELSE Some(<<"Ok", chunks>>)
    /\ pc' = "chunks_parsed"
    /\ UNCHANGED <<text, column, chunks, opened_chunks>>
    /\ UNCHANGED <<formerVars, bingoVars, diagnosticVars, octopusVars>>

NextChunks ==
    \/ ParseChar
    \/ ParseEnd

ChunkSpec == InitChunks /\ [][NextChunks]_vars

----------------------------------------------------------------------------
(* day04.rs: the bingo boards, play_to_first_win and play_to_end *)

SquareNew(number) == [number |-> number, marked |-> FALSE]

square_mark(square) == [square EXCEPT !.marked = TRUE]

(* a board of the game; origin is a history field, the board's index in   *)
(* the input, which the code does not keep                                *)
Board(origin, squares) == [origin |-> origin, squares |-> squares]

BoardNew(rows) ==
    [y \in DOMAIN rows |-> [x \in DOMAIN rows[y] |-> SquareNew(rows[y][x])]]

mark(board, number) ==
    [board EXCEPT !.squares =
        [y \in DOMAIN @ |->
            [x \in DOMAIN @[y] |->
                IF @[y][x].number = number THEN square_mark(@[y][x]) ELSE @[y][x]]]]

has_won_lines_only(board) ==
    \E y \in DOMAIN board.squares :
        \A x \in DOMAIN board.squares[y] : board.squares[y][x].marked

has_won(board) ==
    \/ \E y \in DOMAIN board.squares :
          \A x \in DOMAIN board.squares[y] : board.squares[y][x].marked
    \/ \E x \in DOMAIN board.squares :
          \A y \in DOMAIN board.squares : board.squares[y][x].marked

has_not_won(board) == ~has_won(board)

RECURSIVE flatten(_)
flatten(lines) == IF lines = <<>> THEN <<>> ELSE Head(lines) \o flatten(Tail(lines))

RECURSIVE total(_)
total(ns) == IF ns = <<>> THEN 0 ELSE Head(ns) + total(Tail(ns))

unmarked(square) == ~square.marked

RECURSIVE numbers_of(_)
numbers_of(squares) ==
    IF squares = <<>> THEN <<>> ELSE <<Head(squares).number>> \o numbers_of(Tail(squares))

unmarked_numbers(board) == numbers_of(SelectSeq(flatten(board.squares), unmarked))

SampleDraws ==
    <<7, 4, 9, 5, 11, 17, 23, 2, 0, 14, 21, 24, 10, 16, 13, 6, 15, 25, 12, 22,
      18, 20, 8, 19, 3, 26, 1>>

SampleBoards ==
    << BoardNew(<< <<22, 13, 17, 11, 0>>,
                   <<8, 2, 23, 4, 24>>,
                   <<21, 9, 14, 16, 7>>,
                   <<6, 10, 3, 18, 5>>,
                   <<1, 12, 20, 15, 19>> >>),
       BoardNew(<< <<3, 15, 0, 2, 22>>,
                   <<9, 18, 13, 17, 5>>,
                   <<19, 8, 7, 25, 23>>,
                   <<20, 11, 10, 24, 4>>,
                   <<14, 21, 16, 12, 6>> >>),
       BoardNew(<< <<14, 21, 17, 24, 4>>,
                   <<10, 16, 15, 9, 19>>,
                   <<18, 8, 23, 26, 20>>,
                   <<22, 11, 13, 6, 5>>,
                   <<2, 0, 12, 3, 7>> >>) >>

(* the boards of side BoardSize with pairwise different numbers *)
Boards ==
    { BoardNew(rows) :
        rows \in { m \in [1..BoardSize -> [1..BoardSize -> 0..MaxNumber]] :
                        \A y1, y2, x1, x2 \in 1..BoardSize :
                            m[y1][x1] = m[y2][x2] => y1 = y2 /\ x1 = x2 } }

BingoInputs ==
    ((UNION {[1..k -> 0..MaxNumber] : k \in 0..MaxDraws})
        \X (UNION {[1..k -> Boards] : k \in 0..MaxBoards}))
    \cup {<<SampleDraws, SampleBoards>>}

(* boards.iter().copied().collect() *)
copied(input_boards) == [i \in DOMAIN input_boards |-> Board(i, input_boards[i])]

InitBingo ==
    /\ pc = "bingo"
    /\ \E in \in BingoInputs :
          /\ drawn_numbers = in[1]
          /\ board_input = in[2]
          /\ boards = copied(in[2])
    /\ draws = 0
    /\ play_mode \in {"first_win", "end"}
    /\ play_result = None
    /\ wins = <<>>
    /\ FormerIdle /\ ChunkIdle /\ DiagnosticIdle /\ OctopusIdle

(* one iteration of the loop of play_to_first_win *)
PlayToFirstWin ==
    /\ pc = "bingo"
    /\ play_mode = "first_win"
    /\ draws < Len(drawn_numbers)
    /\ LET number == drawn_numbers[draws + 1]
           marked == [i \in DOMAIN boards |-> mark(boards[i], number)]
           winning == SelectSeq(marked, has_won)
       IN  /\ boards' = marked
           /\ draws' = draws + 1
           /\ IF winning # <<>>
              THEN /\ play_result' = Some(<<Head(winning), number>>)
                   /\ wins' = Append(wins, <<Head(winning).origin, draws + 1>>)
                   /\ pc' = "bingo_played"
              ELSE UNCHANGED <<play_result, wins, pc>>
    /\ UNCHANGED <<drawn_numbers, board_input, play_mode>>
    /\ UNCHANGED <<formerVars, chunkVars, diagnosticVars, octopusVars>>

(* one iteration of the loop of play_to_end *)
PlayToEnd ==
    /\ pc = "bingo"
    /\ play_mode = "end"
    /\ draws < Len(drawn_numbers)
    /\ LET number == drawn_numbers[draws + 1]
           marked == [i \in DOMAIN boards |-> mark(boards[i], number)]
           winning_boards == SelectSeq(marked, has_won)
           remaining_boards == SelectSeq(marked, has_not_won)
       IN  /\ boards' = remaining_boards
           /\ draws' = draws + 1
           /\ play_result' =
                 IF winning_boards # <<>>
                 THEN Some(<<Head(winning_boards), number>>)
                 ELSE play_result
           /\ wins' = wins \o [i \in DOMAIN winning_boards |->
                                  <<winning_boards[i].origin, draws + 1>>]
    /\ UNCHANGED <<drawn_numbers, board_input, play_mode, pc>>
    /\ UNCHANGED <<formerVars, chunkVars, diagnosticVars, octopusVars>>

(* the numbers are all drawn: None of play_to_first_win, result of        *)
(* play_to_end                                                            *)
PlayReturn ==
    /\ pc = "bingo"
    /\ draws = Len(drawn_numbers)
    /\ pc' = "bingo_played"
    /\ UNCHANGED <<bingoVars, formerVars, chunkVars, diagnosticVars, octopusVars>>

NextBingo ==
    \/ PlayToFirstWin
    \/ PlayToEnd
    \/ PlayReturn

BingoSpec == InitBingo /\ [][NextBingo]_vars

----------------------------------------------------------------------------
(* day03.rs: oxygen_generator_rating, co2_scrubber_rating and find_number *)

Bits == {"0", "1"}

(* the closure of oxygen_generator_rating *)
oxygen_bit(z, o) == IF z > o THEN "0" ELSE "1"

(* the closure of co2_scrubber_rating *)
co2_bit(z, o) == IF z <= o THEN "0" ELSE "1"

apply_get_bit(f, bits_count) ==
    IF f = "oxygen" THEN oxygen_bit(bits_count[1], bits_count[2])
    ELSE co2_bit(bits_count[1], bits_count[2])

RECURSIVE count_bits_fold(_, _, _)
count_bits_fold(at, ns, acc) ==
    IF ns = <<>> THEN acc
    ELSE count_bits_fold(at, Tail(ns),
            IF Head(ns)[at] = "0" THEN <<acc[1] + 1, acc[2]>>
            ELSE <<acc[1], acc[2] + 1>>)

(* at is the 1-based index of the 0-based position of the code *)
count_bits(at, ns) == count_bits_fold(at, ns, <<0, 0>>)

RECURSIVE filter(_, _, _)
filter(bit, at, ns) ==
    IF ns = <<>> THEN <<>>
    ELSE IF Head(ns)[at] = bit
         THEN <<Head(ns)>> \o filter(bit, at, Tail(ns))
         ELSE filter(bit, at, Tail(ns))

RECURSIVE reduce_decimal(_, _)
reduce_decimal(g, ds) ==
    IF ds = <<>> THEN g
    ELSE reduce_decimal(g * 2 + (IF Head(ds) = "0" THEN 0 ELSE 1), Tail(ds))

to_decimal(number) ==
    IF number = <<>> THEN 0
    ELSE reduce_decimal(IF Head(number) = "0" THEN 0 ELSE 1, Tail(number))

SampleReport ==
    << <<"0", "0", "1", "0", "0">>, <<"1", "1", "1", "1", "0">>,
       <<"1", "0", "1", "1", "0">>, <<"1", "0", "1", "1", "1">>,
       <<"1", "0", "1", "0", "1">>, <<"0", "1", "1", "1", "1">>,
       <<"0", "0", "1", "1", "1">>, <<"1", "1", "1", "0", "0">>,
       <<"1", "0", "0", "0", "0">>, <<"1", "1", "0", "0", "1">>,
       <<"0", "0", "0", "1", "0">>, <<"0", "1", "0", "1", "0">> >>

(* the reports: lists of binary strings of one length *)
Reports03 ==
    (UNION { UNION {[1..k -> [1..w -> Bits]] : k \in 0..MaxReportLen} : w \in 1..MaxBits })
        \cup {SampleReport}

InitDiagnostic ==
    /\ pc = "finding"
    /\ diagnostic_report \in Reports03
    /\ numbers = diagnostic_report
    /\ bit_position = 0
    /\ get_bit \in {"oxygen", "co2"}
    /\ rating = None
    /\ FormerIdle /\ ChunkIdle /\ BingoIdle /\ OctopusIdle

(* one iteration of the loop of find_number; reading a byte past the end  *)
(* of a string panics                                                     *)
FindNumberStep ==
    /\ pc = "finding"
    /\ Len(numbers) > 1
    /\ IF \E n \in DOMAIN numbers : bit_position + 1 > Len(numbers[n])
       THEN /\ pc' = "panicked"
            /\ UNCHANGED <<numbers, bit_position>>
       ELSE /\ numbers' = filter(apply_get_bit(get_bit, count_bits(bit_position + 1, numbers)),
                                 bit_position + 1, numbers)
            /\ bit_position' = bit_position + 1
            /\ UNCHANGED pc
    /\ UNCHANGED <<diagnostic_report, get_bit, rating>>
    /\ UNCHANGED <<formerVars, chunkVars, bingoVars, octopusVars>>

(* numbers[0].to_decimal(); indexing an empty vector panics *)
FindNumberReturn ==
    /\ pc = "finding"
    /\ Len(numbers) <= 1
    /\ IF numbers = <<>>
       THEN pc' = "panicked" /\ UNCHANGED rating
       ELSE pc' = "found_number" /\ rating' = Some(to_decimal(numbers[1]))
    /\ UNCHANGED <<diagnostic_report, numbers, bit_position, get_bit>>
    /\ UNCHANGED <<formerVars, chunkVars, bingoVars, octopusVars>>

NextDiagnostic ==
    \/ FindNumberStep
    \/ FindNumberReturn

DiagnosticSpec == InitDiagnostic /\ [][NextDiagnostic]_vars

----------------------------------------------------------------------------
(* day11.rs: OctopusGroup, next_step, increase and flash *)
(* cell: the number of octopuses next_step has visited; calls: the calls  *)
(* of flash that have not returned, the innermost last, each with the     *)
(* neighbours it still has to visit and its set of flashing octopuses;    *)
(* flashing: the sets that increase has returned to next_step             *)

(* side of the generated groups whose energies are any digits *)
GroupSize == 2

(* side of the generated groups whose energies are 8 or 9 *)
WideGroupSize == 3

FlashEnergy == 10

Side(group) == Len(group)

(* the cartesian product of two ranges of indices, the first one outer *)
range_product(xs, ys) ==
    [i \in 1..(Len(xs) * Len(ys)) |->
        <<xs[((i - 1) \div Len(ys)) + 1], ys[((i - 1) % Len(ys)) + 1]>>]

(* lo..=hi as a sequence *)
RangeInclusive(lo, hi) == [i \in 1..(hi - lo + 1) |-> lo + i - 1]

saturating_sub(a, b) == IF a < b THEN 0 ELSE a - b

(* x and y are the 0-based indices of the code *)
energy(group, x, y) == group[y + 1][x + 1]

(* self.0[y][x] += 1 *)
increased(group, x, y) == [group EXCEPT ![y + 1][x + 1] = @ + 1]

(* the test of flash *)
is_flashing_from(e) == e >= FlashEnergy

is_flashing(e) == e = FlashEnergy

(* the neighbours of flash: x_range.cartesian_product(y_range) *)
neighbours_of(side, x, y) ==
    range_product(RangeInclusive(saturating_sub(x, 1), Min(x + 1, side - 1)),
                  RangeInclusive(saturating_sub(y, 1), Min(y + 1, side - 1)))

(* a call of flash that has inserted (x, y) and enters its loop *)
Call(side, x, y) ==
    [neighbours |-> neighbours_of(side, x, y), flashing |-> {<<x, y>>}]

RECURSIVE len(_)
len(sets) == IF sets = <<>> THEN 0 ELSE Cardinality(Head(sets)) + len(Tail(sets))

(* flashing.iter().for_each(|&(x, y)| self.0[y][x] = 0) *)
reset(group, sets) ==
    [y \in DOMAIN group |->
        [x \in DOMAIN group[y] |->
            IF \E i \in DOMAIN sets : <<x - 1, y - 1>> \in sets[i]
            THEN 0 ELSE group[y][x]]]

SmallSample ==
    << <<1, 1, 1, 1, 1>>,
       <<1, 9, 9, 9, 1>>,
       <<1, 9, 1, 9, 1>>,
       <<1, 9, 9, 9, 1>>,
       <<1, 1, 1, 1, 1>> >>

(* the groups: what from_str reads has the energies 0 to 9 *)
Groups ==
    [1..GroupSize -> [1..GroupSize -> 0..9]]
        \cup [1..WideGroupSize -> [1..WideGroupSize -> {8, 9}]]
        \cup {SmallSample}

InitOctopuses ==
    /\ pc = "octopuses"
    /\ octopuses \in Groups
    /\ cell = 0
    /\ calls = <<>>
    /\ flashing = <<>>
    /\ flashes = 0
    /\ before_step = octopuses
    /\ step_count = 0
    /\ FormerIdle /\ ChunkIdle /\ BingoIdle /\ DiagnosticIdle

(* next_step is called *)
NextStep ==
    /\ pc = "octopuses"
    /\ step_count < MaxSteps
    /\ pc' = "stepping"
    /\ before_step' = octopuses
    /\ cell' = 0
    /\ flashing' = <<>>
    /\ UNCHANGED <<octopuses, calls, flashes, step_count>>
    /\ UNCHANGED <<formerVars, chunkVars, bingoVars, diagnosticVars>>

(* next_step calls increase on the next octopus of the product *)
Increase ==
    /\ pc = "stepping"
    /\ calls = <<>>
    /\ cell < Side(octopuses) * Side(octopuses)
    /\ LET x == cell \div Side(octopuses)
           y == cell % Side(octopuses)
       IN  /\ octopuses' = increased(octopuses, x, y)
           /\ IF is_flashing(energy(octopuses, x, y) + 1)
              THEN calls' = <<Call(Side(octopuses), x, y)>> /\ UNCHANGED flashing
              ELSE flashing' = Append(flashing, {}) /\ UNCHANGED calls
    /\ cell' = cell + 1
    /\ UNCHANGED <<pc, flashes, before_step, step_count>>
    /\ UNCHANGED <<formerVars, chunkVars, bingoVars, diagnosticVars>>

(* the innermost call of flash visits its next neighbour *)
FlashNeighbour ==
    /\ pc = "stepping"
    /\ calls # <<>>
    /\ calls[Len(calls)].neighbours # <<>>
    /\ LET x == Head(calls[Len(calls)].neighbours)[1]
           y == Head(calls[Len(calls)].neighbours)[2]
           visited == [calls EXCEPT ![Len(calls)].neighbours = Tail(@)]
       IN  IF energy(octopuses, x, y) < FlashEnergy
           THEN /\ octopuses' = increased(octopuses, x, y)
                /\ calls' = IF is_flashing(energy(octopuses, x, y) + 1)
                            THEN Append(visited, Call(Side(octopuses), x, y))
                            ELSE visited
           ELSE /\ calls' = visited
                /\ UNCHANGED octopuses
    /\ UNCHANGED <<pc, cell, flashing, flashes, before_step, step_count>>
    /\ UNCHANGED <<formerVars, chunkVars, bingoVars, diagnosticVars>>

(* the innermost call of flash returns its set, to the call of flash      *)
(* that extends its own set with it or to next_step                       *)
FlashReturn ==
    /\ pc = "stepping"
    /\ calls # <<>>
    /\ calls[Len(calls)].neighbours = <<>>
    /\ IF Len(calls) > 1
       THEN /\ calls' = [SubSeq(calls, 1, Len(calls) - 1) EXCEPT
                            ![Len(calls) - 1].flashing = @ \cup calls[Len(calls)].flashing]
            /\ UNCHANGED flashing
       ELSE /\ calls' = <<>>
            /\ flashing' = Append(flashing, calls[1].flashing)
    /\ UNCHANGED <<pc, octopuses, cell, flashes, before_step, step_count>>
    /\ UNCHANGED <<formerVars, chunkVars, bingoVars, diagnosticVars>>

(* next_step resets the flashing octopuses and returns their number *)
StepReturn ==
    /\ pc = "stepping"
    /\ calls = <<>>
    /\ cell = Side(octopuses) * Side(octopuses)
    /\ octopuses' = reset(octopuses, flashing)
    /\ flashes' = len(flashing)
    /\ step_count' = step_count + 1
    /\ pc' = "octopuses"
    /\ UNCHANGED <<cell, calls, flashing, before_step>>
    /\ UNCHANGED <<formerVars, chunkVars, bingoVars, diagnosticVars>>

NextOctopuses ==
    \/ NextStep
    \/ Increase
    \/ FlashNeighbour
    \/ FlashReturn
    \/ StepReturn

OctopusSpec == InitOctopuses /\ [][NextOctopuses]_vars

----------------------------------------------------------------------------
(* Properties of the fingerprints, the matcher and the search (MatchSpec) *)

Built == pc \in {"built", "matched", "reversed", "searched"}

Matched == pc \in {"matched", "reversed", "searched"}

Reversed == pc \in {"reversed", "searched"}

NumBeacons(s) == Cardinality(DOMAIN s.beacons)

Others(s, b) == DOMAIN s.beacons \ {b}

DistinctDistances(s, b) ==
    \A c \in Others(s, b), d \in Others(s, b) :
        c # d => square_distance(b, c) # square_distance(b, d)

Shared(s, a, o, b) == Cardinality(s.beacons[a] \cap o.beacons[b])

(* C1 as stated: every fingerprint of a scanner built by Scanner::new has *)
(* exactly |beacons| - 1 elements                                         *)
C1_FingerprintSizeExact ==
    pc = "built" => \A s \in {self, other} : \A b \in DOMAIN s.beacons :
                Cardinality(s.beacons[b]) = NumBeacons(s) - 1

(* C1 amended: a fingerprint is the set of squared distances from the     *)
(* beacon to the other beacons of the scanner, so it has at most          *)
(* |beacons| - 1 elements, and exactly that many if and only if the       *)
(* distances from the beacon to the other beacons are pairwise distinct   *)
C1_FingerprintSize ==
    pc = "built" => \A s \in {self, other} : \A b \in DOMAIN s.beacons :
                /\ s.beacons[b] = {square_distance(b, c) : c \in Others(s, b)}
                /\ Cardinality(s.beacons[b]) <= NumBeacons(s) - 1
                /\ Cardinality(s.beacons[b]) = NumBeacons(s) - 1
                      <=> DistinctDistances(s, b)

C1_Witness ==
    /\ pc = "built"
    /\ \E b \in DOMAIN self.beacons : Cardinality(self.beacons[b]) < NumBeacons(self) - 1
    /\ \E b \in DOMAIN self.beacons : Cardinality(self.beacons[b]) = NumBeacons(self) - 1

(* C2 as stated: a pair is made, and have_common_distances is true, only  *)
(* when the two fingerprints share at least 12 distances                  *)
C2_TwelveCommonDistances ==
    /\ Matched =>
          \A a \in DOMAIN fwd.collected : Shared(self, a, other, fwd.collected[a]) >= 12
    /\ Reversed =>
          \A b \in DOMAIN bwd.collected : Shared(other, b, self, bwd.collected[b]) >= 12
    /\ Built =>
          \A a \in DOMAIN self.beacons, b \in DOMAIN other.beacons :
             have_common_distances(self.beacons[a], other.beacons[b])
                => Shared(self, a, other, b) >= 12

(* C2 amended: find_common_beacons pairs a beacon of the first scanner    *)
(* with a beacon of the second only if their fingerprints share at least  *)
(* 11 distances, and have_common_distances is true only then              *)
C2_ElevenCommonDistances ==
    /\ Matched =>
          \A a \in DOMAIN fwd.collected :
             /\ a \in DOMAIN self.beacons
             /\ fwd.collected[a] \in DOMAIN other.beacons
             /\ Shared(self, a, other, fwd.collected[a]) >= 11
    /\ Reversed =>
          \A b \in DOMAIN bwd.collected :
             /\ b \in DOMAIN other.beacons
             /\ bwd.collected[b] \in DOMAIN self.beacons
             /\ Shared(other, b, self, bwd.collected[b]) >= 11
    /\ Built =>
          \A a \in DOMAIN self.beacons, b \in DOMAIN other.beacons :
             have_common_distances(self.beacons[a], other.beacons[b])
                => Shared(self, a, other, b) >= 11

C2_Witness ==
    /\ pc = "matched"
    /\ IsSome(fwd.returned)
    /\ \E a \in DOMAIN fwd.collected : Shared(self, a, other, fwd.collected[a]) = 11

(* C4: when one of the two scanners has fewer than 12 beacons, neither    *)
(* direction of find_common_beacons returns a correspondence              *)
C4_SmallScannerNeverMatched ==
    (Reversed /\ (NumBeacons(self) < 12 \/ NumBeacons(other) < 12))
       => fwd.returned = None /\ bwd.returned = None

C4_Witness ==
    /\ pc = "reversed"
    /\ NumBeacons(self) = 11
    /\ NumBeacons(other) >= 12
    /\ DOMAIN self.beacons \subseteq DOMAIN other.beacons

Pairs(m) == {<<a, m[a]>> : a \in DOMAIN m}

Swapped(pairs) == {<<pr[2], pr[1]>> : pr \in pairs}

(* each beacon of s has at most one beacon of o with 11 common distances *)
AtMostOneCandidate(s, o) ==
    \A a \in DOMAIN s.beacons :
        Cardinality({b \in DOMAIN o.beacons : Shared(s, a, o, b) >= 11}) <= 1

(* C5 as stated: a correspondence of at least 12 pairs is returned as the *)
(* same pairs, reversed, by the call in the other direction               *)
C5_Symmetric ==
    (Reversed /\ IsSome(fwd.returned))
       => /\ IsSome(bwd.returned)
          /\ Pairs(Unwrap(bwd.returned)) = Swapped(Pairs(Unwrap(fwd.returned)))

(* C5 amended: when no beacon of either scanner has two candidates in the *)
(* other (two beacons whose fingerprints share 11 distances with its      *)
(* own), a correspondence A.find_common_beacons(B) of at least 12 pairs   *)
(* (first-scanner beacon, second-scanner beacon) is returned as the same  *)
(* pairs, reversed, by B.find_common_beacons(A)                           *)
C5_SymmetricWhenUnambiguous ==
    (/\ Reversed
     /\ IsSome(fwd.returned)
     /\ AtMostOneCandidate(self, other)
     /\ AtMostOneCandidate(other, self))
       => /\ IsSome(bwd.returned)
          /\ Pairs(Unwrap(fwd.returned)) \subseteq (DOMAIN self.beacons) \X (DOMAIN other.beacons)
          /\ Pairs(Unwrap(bwd.returned)) = Swapped(Pairs(Unwrap(fwd.returned)))

C5_Witness ==
    /\ pc = "reversed"
    /\ IsSome(fwd.returned)
    /\ AtMostOneCandidate(self, other)
    /\ AtMostOneCandidate(other, self)
    /\ input[1][2] # input[2][2]
    /\ NumBeacons(self) > Cardinality(DOMAIN Unwrap(fwd.returned))

(* the offset the pair (a -> m[a]) gives under transformation t *)
Offset(m, t, a) == Sub(Transform(t, a), m[a])

(* transformation t gives one identical offset for all pairs of m *)
Consistent(m, t) ==
    \A a \in DOMAIN m, b \in DOMAIN m : Offset(m, t, a) = Offset(m, t, b)

ConsistentTransformations(m) ==
    {t \in 1..NumTransformations : Consistent(m, t)}

(* C6: find_matching_transformation returns (T, p) only when T is one of  *)
(* the 24 transformations and T(a) - b = p for every pair (a -> b); it    *)
(* returns None exactly when none of the 24 gives one identical offset    *)
C6_SearchSound ==
    pc = "searched" =>
       /\ IsSome(found) =>
             /\ Unwrap(found)[1] \in 1..24
             /\ \A a \in DOMAIN Unwrap(fwd.returned) :
                   Offset(Unwrap(fwd.returned), Unwrap(found)[1], a) = Unwrap(found)[2]
       /\ ~IsSome(found) <=> ConsistentTransformations(Unwrap(fwd.returned)) = {}

C6_Witness ==
    /\ pc = "searched"
    /\ IsSome(found)
    /\ Unwrap(found)[1] # 1
    /\ Unwrap(found)[2] # Origin

(* both reports see the same beacons: the second scanner's beacons are    *)
(* the first's under a rotation and a translation                         *)
SameBeacons == Views[input[1][1]] = Views[input[2][1]]

(* every pair of m joins the two reports of one beacon *)
TruePairs(m) ==
    \A a \in DOMAIN m :
       \E k \in Views[input[1][1]] \cap Views[input[2][1]] :
          /\ a = Place(input[1][2], Points[k])
          /\ m[a] = Place(input[2][2], Points[k])

Cross(u, v) ==
    <<u[2] * v[3] - u[3] * v[2], u[3] * v[1] - u[1] * v[3], u[1] * v[2] - u[2] * v[1]>>

(* the positions of S lie on one line *)
Collinear(S) ==
    \A a \in S, b \in S, c \in S : Cross(Sub(b, a), Sub(c, a)) = Origin

(* C7 as stated: for a correspondence obtained from two scanners that see *)
(* the same beacons, the search returns Some and exactly one of the 24    *)
(* transformations is consistent                                          *)
C7_ExactlyOne ==
    (pc = "searched" /\ SameBeacons)
       => /\ IsSome(found)
          /\ Cardinality(ConsistentTransformations(Unwrap(fwd.returned))) = 1

(* C7 amended: for a correspondence obtained from two overlapping         *)
(* scanners in which every pair joins the two reports of one beacon, the  *)
(* search returns Some; and when the paired beacons are not all on one    *)
(* line, no other transformation of the 24 is consistent                  *)
C7_OneWhenNotCollinear ==
    (pc = "searched" /\ TruePairs(Unwrap(fwd.returned)))
       => /\ IsSome(found)
          /\ Unwrap(found)[1] \in ConsistentTransformations(Unwrap(fwd.returned))
          /\ ~Collinear(DOMAIN Unwrap(fwd.returned))
                => ConsistentTransformations(Unwrap(fwd.returned)) = {Unwrap(found)[1]}

C7_Witness ==
    /\ pc = "searched"
    /\ TruePairs(Unwrap(fwd.returned))
    /\ ~Collinear(DOMAIN Unwrap(fwd.returned))
    /\ IsSome(found)
    /\ Unwrap(found)[1] # 1
    /\ input[1][1] # input[2][1]

(* the paired beacons are on one line and several transformations fit *)
C7_CollinearReached ==
    /\ pc = "searched"
    /\ TruePairs(Unwrap(fwd.returned))
    /\ Collinear(DOMAIN Unwrap(fwd.returned))
    /\ Cardinality(ConsistentTransformations(Unwrap(fwd.returned))) > 1

----------------------------------------------------------------------------
(* Properties of normalize_scanners (Spec, FairSpec) *)

Last(q) == q[Len(q)]

(* C3: find_common_beacons returns Some(map) if and only if the map it    *)
(* collected has at least 12 entries; with fewer it returns None, and the *)
(* caller goes on to the next normalized scanner, requeueing the scanner  *)
(* when none is left                                                      *)
C3_SomeIffTwelveEntries ==
    IsSome(scanner) =>
       /\ \A k \in 1..(Len(tried) - 1) : Cardinality(DOMAIN tried[k]) < 12
       /\ IsSome(result) <=>
             (tried # <<>> /\ Cardinality(DOMAIN Last(tried)) >= 12)
       /\ IsSome(result) => Unwrap(result) = Last(tried)
       /\ ~IsSome(result) =>
             /\ Len(tried) = Len(normalized_scanners)
             /\ transformation = None
             /\ Last(to_normalize) = Unwrap(scanner)

C3_Witness ==
    /\ IsSome(scanner)
    /\ IsSome(result)
    /\ Len(tried) = 2
    /\ Cardinality(DOMAIN tried[1]) < 12
    /\ Cardinality(DOMAIN tried[2]) = 12

(* a copy of s moved by transformation t and offset p *)
IsTransformedCopy(n, s, t, p) ==
    /\ DOMAIN n.beacons = {Sub(Transform(t, b), p) : b \in DOMAIN s.beacons}
    /\ \A b \in DOMAIN s.beacons : n.beacons[Sub(Transform(t, b), p)] = s.beacons[b]
    /\ n.position = p

(* C8: the two pools.  At first resolved holds the first input scanner    *)
(* alone, unchanged and at (0,0,0), and pending the others in input       *)
(* order; each step pops the front of pending and either appends its      *)
(* transformed copy to resolved, when match and search both succeeded, or *)
(* pushes the unchanged scanner onto the back of pending                  *)
C8_TwoPools ==
    [][/\ pc = "start" =>
             /\ pc' = "loop"
             /\ scanners # <<>> =>
                   /\ normalized_scanners' = <<scanners[1]>>
                   /\ scanners[1].position = Origin
                   /\ to_normalize' = [k \in 1..(Len(scanners) - 1) |-> scanners[k + 1]]
             /\ scanners = <<>> => normalized_scanners' = <<>> /\ to_normalize' = <<>>
       /\ (pc = "loop" /\ to_normalize # <<>>) =>
             /\ scanner' = Some(Head(to_normalize))
             /\ \/ /\ IsSome(result') /\ IsSome(transformation')
                   /\ to_normalize' = Tail(to_normalize)
                   /\ Len(normalized_scanners') = Len(normalized_scanners) + 1
                   /\ \A k \in 1..Len(normalized_scanners) :
                         normalized_scanners'[k] = normalized_scanners[k]
                   /\ IsTransformedCopy(Last(normalized_scanners'), Head(to_normalize),
                                        Unwrap(transformation')[1], Unwrap(transformation')[2])
                \/ /\ ~(IsSome(result') /\ IsSome(transformation'))
                   /\ normalized_scanners' = normalized_scanners
                   /\ to_normalize' = Append(Tail(to_normalize), Head(to_normalize))
      ]_vars

C8_Witness ==
    /\ pc = "loop"
    /\ Len(normalized_scanners) >= 2
    /\ Len(to_normalize) >= 1
    /\ IsSome(result)
    /\ ~IsSome(transformation)
    /\ Last(to_normalize) = Unwrap(scanner)

(* C9: once a scanner is in the resolved pool, no later step removes it,  *)
(* moves it or changes its beacons or its position                        *)
C9_NormalizedIsPermanent ==
    [][/\ Len(normalized_scanners') >= Len(normalized_scanners)
       /\ \A k \in 1..Len(normalized_scanners) :
             normalized_scanners'[k] = normalized_scanners[k]
      ]_vars

C9_Witness ==
    /\ Len(normalized_scanners) >= 3
    /\ normalized_scanners[2].position # Origin
    /\ pc = "done"

(* what matching and transformation search give for s against o: the     *)
(* correspondence, whether each beacon of s has at most one candidate in  *)
(* o, and whether both succeed                                            *)
Attempt(s, o) ==
    Value(find_common_beacons(s, o), LAMBDA r :
       [matches  |-> IsSome(r),
        single   |-> AtMostOneCandidate(s, o),
        succeeds |-> IsSome(r) /\ IsSome(find_matching_transformation(Unwrap(r), o.order))])

Attempts ==
    [i \in 1..Len(scanners) |-> [j \in 1..Len(scanners) |->
        IF i = j THEN <<>> ELSE Attempt(scanners[i], scanners[j])]]

(* the pairs of input scanners for which they succeed, in both directions *)
EdgesOf(attempts) ==
    {e \in (1..Len(scanners)) \X (1..Len(scanners)) :
        /\ e[1] # e[2]
        /\ attempts[e[1]][e[2]].succeeds
        /\ attempts[e[2]][e[1]].succeeds}

RECURSIVE Reachable(_, _, _)
Reachable(from, edges, n) ==
    IF n = 0 THEN from
    ELSE Reachable(from \cup {e[2] : e \in {d \in edges : d[1] \in from}}, edges, n - 1)

(* every input scanner is joined to the first by a chain of such pairs *)
ConnectedBy(attempts) ==
    scanners # <<>> =>
       Value(EdgesOf(attempts), LAMBDA edges :
                Reachable({1}, edges, Len(scanners)) = 1..Len(scanners))

(* no beacon has two candidates in another input scanner, and no input  *)
(* scanner matches another without a consistent transformation          *)
UnambiguousBy(attempts) ==
    \A i \in 1..Len(scanners), j \in 1..Len(scanners) :
       i # j =>
          /\ attempts[i][j].single
          /\ attempts[i][j].matches => attempts[i][j].succeeds

Connected == Value(Attempts, ConnectedBy)

ConnectedAndUnambiguous ==
    Value(Attempts, LAMBDA attempts : ConnectedBy(attempts) /\ UnambiguousBy(attempts))

ReturnsAllResolved ==
    pc = "done" => to_normalize = <<>> /\ Len(normalized_scanners) = Len(scanners)

(* C10 as stated: if every input scanner is connected to the first by a   *)
(* chain of pairs for which matching and transformation search succeed,   *)
(* normalize_scanners terminates; it returns only when pending is empty,  *)
(* with one resolved scanner per input scanner                            *)
C10_TerminatesWhenConnected ==
    /\ []ReturnsAllResolved
    /\ (IF pc = "start" THEN Connected ELSE FALSE) ~> (pc = "done")

(* C10 amended: if moreover no beacon of an input scanner has two         *)
(* candidates in another input scanner and every pair of input scanners   *)
(* that matches has a consistent transformation, normalize_scanners       *)
(* terminates; it returns only when pending is empty, with one resolved   *)
(* scanner per input scanner                                              *)
C10_TerminatesWhenConnectedAndUnambiguous ==
    /\ []ReturnsAllResolved
    /\ (IF pc = "start" THEN ConnectedAndUnambiguous ELSE FALSE) ~> (pc = "done")

C10_Witness ==
    /\ pc = "done"
    /\ Len(scanners) >= 3
    /\ ConnectedAndUnambiguous
    /\ \E i \in 2..Len(scanners) : ~Attempt(scanners[1], scanners[i]).matches

(* i and j match: find_common_beacons is Some in one direction at least *)
Matching(i, j) ==
    \/ IsSome(find_common_beacons(scanners[i], scanners[j]))
    \/ IsSome(find_common_beacons(scanners[j], scanners[i]))

MatchingEdges ==
    {e \in (1..Len(scanners)) \X (1..Len(scanners)) : e[1] # e[2] /\ Matching(e[1], e[2])}

(* the input scanners that no chain of matching scanners relates to the *)
(* first                                                                *)
Unrelated ==
    IF scanners = <<>> THEN {}
    ELSE Value(MatchingEdges, LAMBDA edges :
                  (1..Len(scanners)) \ Reachable({1}, edges, Len(scanners)))

IndexOf(s) == CHOOSE i \in 1..Len(scanners) : scanners[i] = s

(* C11: when some input scanner is related to the first by no chain of    *)
(* matching scanners, normalize_scanners never returns, and every         *)
(* iteration that pops such a scanner pushes it back, unchanged, onto     *)
(* pending; there is no other outcome (no error)                          *)
C11_DisconnectedNeverReturns ==
    [][/\ pc' = "done" => Unrelated = {}
       /\ (pc = "loop" /\ to_normalize # <<>>
             /\ to_normalize' # Append(Tail(to_normalize), Head(to_normalize)))
          => IndexOf(Head(to_normalize)) \notin Unrelated
      ]_vars

C11_Witness ==
    /\ pc = "loop"
    /\ Len(scanners) >= 3
    /\ Len(normalized_scanners) >= 2
    /\ IsSome(scanner)
    /\ to_normalize = <<Unwrap(scanner)>>
    /\ IndexOf(Unwrap(scanner)) \in Unrelated
    /\ iterations = 0

----------------------------------------------------------------------------
(* Properties of a second call of normalize_scanners (RerunSpec) *)

SameBeaconCoordinates ==
    /\ Len(normalized_scanners) = Len(scanners)
    /\ \A k \in 1..Len(scanners) :
          normalized_scanners[k].beacons = scanners[k].beacons

SamePositions ==
    /\ Len(normalized_scanners) = Len(scanners)
    /\ \A k \in 1..Len(scanners) :
          normalized_scanners[k].position = scanners[k].position

(* C12: normalize_scanners run on the scanners a previous run returned    *)
(* returns the same scanners, with the same beacon coordinates and the    *)
(* same positions                                                         *)
C12_Idempotent ==
    (pc = "done" /\ run > 1) => SameBeaconCoordinates /\ SamePositions

(* what the second run does keep: the beacon coordinates *)
C12_BeaconsKept ==
    (pc = "done" /\ run > 1) => SameBeaconCoordinates

(* what it does to the positions: all are (0,0,0) *)
C12_PositionsReset ==
    (pc = "done" /\ run > 1) =>
       \A k \in 1..Len(normalized_scanners) : normalized_scanners[k].position = Origin

----------------------------------------------------------------------------
(* Properties of the scanner a loop iteration has normalized (Spec) *)

(* the last iteration normalized the scanner it popped *)
JustNormalized == IsSome(scanner) /\ IsSome(result) /\ IsSome(transformation)

(* the resolved scanner the correspondence of the last iteration is with *)
MatchedWith == normalized_scanners[Len(tried)]

(* C13: every pair (a -> b) of the correspondence a scanner is normalized *)
(* with is honoured: b is the image of a, it is a beacon of the           *)
(* normalized scanner, with the fingerprint of a, and a beacon of the     *)
(* resolved scanner matched with                                          *)
C13_PairsHonoured ==
    JustNormalized =>
       \A a \in DOMAIN Unwrap(result) :
          /\ a \in DOMAIN Unwrap(scanner).beacons
          /\ Sub(Transform(Unwrap(transformation)[1], a), Unwrap(transformation)[2])
                = Unwrap(result)[a]
          /\ Unwrap(result)[a] \in DOMAIN Last(normalized_scanners).beacons
          /\ Last(normalized_scanners).beacons[Unwrap(result)[a]]
                = Unwrap(scanner).beacons[a]
          /\ Unwrap(result)[a] \in DOMAIN MatchedWith.beacons

C13_Witness ==
    /\ JustNormalized
    /\ Len(normalized_scanners) = 3
    /\ Len(tried) = 2
    /\ Unwrap(transformation)[1] # 1
    /\ Unwrap(transformation)[2] # Origin
    /\ MatchedWith.position # Origin

(* the image of p under the map the last iteration applied to the beacons *)
BeaconMap(p) ==
    Sub(Transform(Unwrap(transformation)[1], p), Unwrap(transformation)[2])

(* C14: the position of a normalized scanner is the image of the          *)
(* scanner-local origin (0,0,0) under the map applied to its beacons      *)
C14_PositionIsImageOfOrigin ==
    JustNormalized => Last(normalized_scanners).position = BeaconMap(Origin)

(* what the position is: the offset T(a) - b of the pairs, which is the   *)
(* image of the origin with every coordinate negated                      *)
C14_PositionIsNegatedImage ==
    JustNormalized =>
       /\ Last(normalized_scanners).position = Unwrap(transformation)[2]
       /\ Last(normalized_scanners).position = Sub(Origin, BeaconMap(Origin))

----------------------------------------------------------------------------
(* Properties of the two answers (PuzzleSpec) *)

(* the report of the catalogue that input scanner i was built from *)
ReportOf(i) ==
    Catalogue[CHOOSE c \in 1..Len(Catalogue) :
                 DOMAIN scanners[i].beacons
                    = Range(Report(Catalogue[c][1], Catalogue[c][2]))]

(* the beacons the input scanners see, each once, as the first one sees them *)
BeaconsSeen ==
    {Place(ReportOf(1)[2], Points[k]) :
        k \in UNION {Views[ReportOf(i)[1]] : i \in 1..Len(scanners)}}

(* the positions that are a beacon of some normalized scanner *)
NormalizedBeacons ==
    {b \in UNION {DOMAIN normalized_scanners[i].beacons : i \in 1..Len(normalized_scanners)} :
        TRUE}

Manhattan(p, q) ==
    LET d(k) == IF p[k] >= q[k] THEN p[k] - q[k] ELSE q[k] - p[k]
    IN  d(1) + d(2) + d(3)

Distances ==
    {Manhattan(normalized_scanners[i].position, normalized_scanners[j].position) :
        i \in 1..Len(normalized_scanners), j \in 1..Len(normalized_scanners)}

(* C15: part one counts the distinct beacon positions of all normalized   *)
(* scanners, a beacon that several scanners see being counted once; part  *)
(* two is the greatest Manhattan distance between the positions of two    *)
(* normalized scanners                                                    *)
C15_Answers ==
    /\ IsSome(answers.part_one) =>
          /\ Unwrap(answers.part_one) = Cardinality(NormalizedBeacons)
          /\ scanners # <<>> =>
                /\ NormalizedBeacons = BeaconsSeen
                /\ Unwrap(answers.part_one) = Cardinality(BeaconsSeen)
    /\ IsSome(answers.part_two) =>
          /\ Unwrap(answers.part_two) \in Distances
          /\ \A d \in Distances : d <= Unwrap(answers.part_two)

C15_Witness ==
    /\ pc = "done"
    /\ Len(normalized_scanners) = 3
    /\ IsSome(answers.part_one)
    /\ IsSome(answers.part_two)
    /\ Unwrap(answers.part_one) = 14
    /\ Unwrap(answers.part_two) > 0
    /\ Unwrap(answers.part_two)
          > Manhattan(normalized_scanners[1].position, normalized_scanners[2].position)

----------------------------------------------------------------------------
(* Properties of TRANSFORMATIONS (RotationSpec) *)

Axes == << <<1, 0, 0>>, <<0, 1, 0>>, <<0, 0, 1>> >>

SignedAxes == {Axes[k] : k \in 1..3} \cup {Sub(Origin, Axes[k]) : k \in 1..3}

(* the image of axis k under entry i *)
Column(i, k) == Transform(i, Axes[k])

Determinant(i) ==
    LET a == Column(i, 1)
        b == Column(i, 2)
        c == Column(i, 3)
    IN    a[1] * (b[2] * c[3] - b[3] * c[2])
        - b[1] * (a[2] * c[3] - a[3] * c[2])
        + c[1] * (a[2] * b[3] - a[3] * b[2])

(* entry i maps p as the matrix of its columns does *)
Linear(i, p, image) ==
    \A r \in 1..3 :
       image[r] = p[1] * Column(i, 1)[r] + p[2] * Column(i, 2)[r] + p[3] * Column(i, 3)[r]

SquaredDistance(p, q) ==
    (p[1] - q[1]) * (p[1] - q[1]) + (p[2] - q[2]) * (p[2] - q[2])
       + (p[3] - q[3]) * (p[3] - q[3])

(* C16: each of the 24 entries of TRANSFORMATIONS maps (0,0,0) to itself, *)
(* keeps the squared distance between two positions, is a signed axis     *)
(* permutation of determinant +1, and agrees with no other entry on all   *)
(* positions                                                              *)
C16_DistinctRotations ==
    pc = "rotated" =>
       /\ rotated.index \in 1..24
       /\ Transform(rotated.index, Origin) = Origin
       /\ SquaredDistance(rotated.image[1], rotated.image[2])
             = SquaredDistance(probe[1], probe[2])
       /\ \A k \in 1..3 : Column(rotated.index, k) \in SignedAxes
       /\ \A k \in 1..3, l \in 1..3 :
             k # l => /\ Column(rotated.index, k) # Column(rotated.index, l)
                      /\ Column(rotated.index, k) # Sub(Origin, Column(rotated.index, l))
       /\ Linear(rotated.index, probe[1], rotated.image[1])
       /\ Linear(rotated.index, probe[2], rotated.image[2])
       /\ Determinant(rotated.index) = 1
       /\ \A j \in (1..24) \ {rotated.index} :
             \E k \in 1..3 : Column(j, k) # Column(rotated.index, k)

C16_Witness ==
    /\ pc = "rotated"
    /\ rotated.index = 24
    /\ probe[1] = <<1, 0, -1>>
    /\ probe[2] = <<0, 1, 1>>
    /\ rotated.image = << <<0, 1, -1>>, <<1, -1, 0>> >>

----------------------------------------------------------------------------
(* Properties of parsing (ParseSpec) *)

(* the lines taken so far that are not blank and cannot be parsed *)
Unparsable ==
    {k \in 1..cursor :
        IF pc \in {"line", "converted"}
        THEN \/ Len(split(reader[k], <<>>)) < 3
             \/ \E c \in 1..3 : ~IsSome(parse_i32(split(reader[k], <<>>)[c]))
        ELSE trim(reader[k]) # <<>> /\ ~IsSome(parse_u32(trim(reader[k])))}

(* C17: when a line cannot be parsed the program panics: it does not go   *)
(* on to the remaining lines and returns nothing                          *)
C17_ParseFailureAborts ==
    Unparsable # {} => pc = "panicked"

(* what read_lines does: it returns the values of the lines that parse,   *)
(* in order, and never panics                                             *)
C17_ReadLinesSkips ==
    /\ pc \in {"reading", "read"} => Len(items) = cursor - Cardinality(
          {k \in 1..cursor : trim(reader[k]) = <<>>} \cup Unparsable)
    /\ pc = "panicked" => cursor = 1 /\ items = <<>>
----------------------------------------------------------------------------
(* Properties of the command line (CliSpec) *)

(* the decimal writing of a natural number *)
RECURSIVE Numeral(_)
Numeral(n) ==
    IF n < 10 THEN <<ToString(n)>> ELSE Append(Numeral(n \div 10), ToString(n % 10))

(* str writes n: an optional sign, leading zeros, the digits of n *)
Writes(str, n) ==
    \E sign \in {<<>>, <<"+">>}, zeros \in 0..Len(str) :
        str = sign \o [k \in 1..zeros |-> "0"] \o Numeral(n)

(* the identifiers main.rs has a puzzle for: Day1 to Day21 *)
Registered == 1..21

(* the identifier the first argument names, if it names a registered one *)
Selected ==
    IF Len(args) >= 2
    THEN {n \in Registered : Writes(args[2], n)}
    ELSE {}

(* C18: main runs a puzzle only when the first argument is the number of  *)
(* a registered puzzle, and then it runs the puzzle of that number; with  *)
(* no argument, an argument that is not a number or a number without a    *)
(* puzzle it prints nothing and loads no input                            *)
C18_RunsOnlyRegistered ==
    pc = "exited" =>
        IF Selected = {}
        THEN stdout = <<>> /\ opened = {}
        ELSE /\ Len(stdout) = 3
             /\ \A k \in 1..2 : stdout[k].number \in Selected /\ stdout[k].part = k
             /\ \A n \in Selected : Boxes[n].number = n

C18_Witness ==
    /\ pc = "exited"
    /\ args[2] = <<"+", "2", "0">>
    /\ stdout[1] = [number |-> 20, part |-> 1]
    /\ opened = {"day20"}

(* an identifier without a puzzle, a number above u8::MAX and a word     *)
(* have all been given and ignored                                       *)
C18_WitnessNoOp ==
    /\ pc = "exited"
    /\ Len(args) >= 2
    /\ args[2] \in {<<"2", "2">>, <<"9", "9", "9">>, <<"x">>}
    /\ stdout = <<>>

----------------------------------------------------------------------------
(* Properties of the dice game (GameSpec, FairGameSpec) *)

(* the state play returns in *)
GameOver ==
    /\ status = Over
    /\ players[turns[2] + 1].score >= 1000
    /\ players[2 - turns[2]].score < 1000
    /\ rolls = 3 * turns[1]
    /\ starting_positions = <<4, 8>> => rolls = 993 /\ players[2].score = 745

(* C19: play terminates, and when it has returned the status is Over,    *)
(* the player of the last turn has at least 1000 points, the other one    *)
(* fewer, and the die was rolled three times a turn; from the positions   *)
(* 4 and 8 that is 993 rolls and 745 points for the loser                 *)
C19_PlayTerminates ==
    /\ [](pc = "played" => GameOver)
    /\ (pc = "playing") ~> (pc = "played")

C19_Witness ==
    /\ pc = "played"
    /\ starting_positions = <<4, 8>>
    /\ turns = <<331, 0>>
    /\ rolls = 993
    /\ players[1].score >= 1000
    /\ players[2].score = 745

----------------------------------------------------------------------------
(* Properties of the reactor (ReactorSpec) *)

(* the coordinates the instructions mention *)
Mentioned ==
    UNION {{instructions[k][2].x[1], instructions[k][2].x[2],
            instructions[k][2].y[1], instructions[k][2].y[2],
            instructions[k][2].z[1], instructions[k][2].z[2]} :
           k \in 1..Len(instructions)}

(* the coordinates from the lowest one mentioned to the highest *)
Span ==
    {v \in 0..13 : /\ \E m \in Mentioned : m <= v
                   /\ \E m \in Mentioned : v <= m}

(* the integer cubes inside a cuboid *)
CubesOf(c) ==
    {p \in Span \X Span \X Span :
        /\ c.x[1] <= p[1] /\ p[1] <= c.x[2]
        /\ c.y[1] <= p[2] /\ p[2] <= c.y[2]
        /\ c.z[1] <= p[3] /\ p[3] <= c.z[2]}

(* the reference semantics: the cubes on after the first k instructions *)
RECURSIVE Lit(_)
Lit(k) ==
    IF k = 0 THEN {}
    ELSE IF instructions[k][1] = "On"
         THEN Lit(k - 1) \cup CubesOf(instructions[k][2])
         ELSE Lit(k - 1) \ CubesOf(instructions[k][2])

(* every range of every instruction has its start at or before its end *)
WellFormed ==
    \A k \in 1..Len(instructions) :
        /\ instructions[k][2].x[1] <= instructions[k][2].x[2]
        /\ instructions[k][2].y[1] <= instructions[k][2].y[2]
        /\ instructions[k][2].z[1] <= instructions[k][2].z[2]

(* C20: after any sequence of instructions from an empty reactor,          *)
(* count_activated_cubes is the number of cubes that are on under the      *)
(* reference semantics (39 for the sample)                                 *)
C20_CountIsReference ==
    /\ pc # "panicked"
    /\ pc = "counted" =>
          /\ activated = Some(Cardinality(Lit(Len(instructions))))
          /\ instructions = Sample => activated = Some(39)

(* the same for instructions whose ranges are all well formed *)
C20_CountIsReferenceWhenWellFormed ==
    WellFormed =>
        /\ pc # "panicked"
        /\ pc = "counted" =>
              /\ activated = Some(Cardinality(Lit(Len(instructions))))
              /\ instructions = Sample => activated = Some(39)

(* the cuboids of the reactor never overlap when the ranges are well formed *)
C20_Disjoint ==
    WellFormed =>
        \A i \in 1..Len(reactor), j \in 1..Len(reactor) :
            i # j => ~intersects(reactor[i], reactor[j])

C20_Witness ==
    /\ pc = "counted"
    /\ instructions = Sample
    /\ activated = Some(39)

(* two overlapping cuboids switched on, one corner switched off *)
C20_WitnessOverlap ==
    /\ pc = "counted"
    /\ WellFormed
    /\ Len(instructions) = 2
    /\ instructions[2][1] = "Off"
    /\ Len(reactor) >= 3
    /\ Unwrap(activated) > 0

----------------------------------------------------------------------------
(* Properties of cuboid subtraction (ReactorSpec): after c1 is switched    *)
(* on and c2 switched off the reactor holds c1 - c2                        *)

Subtracted ==
    /\ pc = "executing"
    /\ Len(instructions) = 2
    /\ step = 2
    /\ instructions[1][1] = "On"
    /\ instructions[2][1] = "Off"

(* start <= end on every axis *)
WellFormedCuboid(c) == c.x[1] <= c.x[2] /\ c.y[1] <= c.y[2] /\ c.z[1] <= c.z[2]

(* every range of inner lies within the range of outer *)
Within(inner, outer) ==
    /\ outer.x[1] <= inner.x[1] /\ inner.x[2] <= outer.x[2]
    /\ outer.y[1] <= inner.y[1] /\ inner.y[2] <= outer.y[2]
    /\ outer.z[1] <= inner.z[1] /\ inner.z[2] <= outer.z[2]

(* what the claim says of the pieces of c1 - c2 *)
Partitions(pieces, c1, c2) ==
    /\ \A i \in 1..Len(pieces), j \in 1..Len(pieces) :
          i # j => CubesOf(pieces[i]) \cap CubesOf(pieces[j]) = {}
    /\ \A i \in 1..Len(pieces) :
          /\ CubesOf(pieces[i]) \subseteq CubesOf(c1)
          /\ CubesOf(pieces[i]) \cap CubesOf(c2) = {}
    /\ UNION {CubesOf(pieces[i]) : i \in 1..Len(pieces)} = CubesOf(c1) \ CubesOf(c2)
    /\ Within(c1, c2) => pieces = <<>>
    /\ CubesOf(c1) \cap CubesOf(c2) = {} => pieces = <<c1>>

C29_StoredCuboidsDisjoint ==
    WellFormed =>
        /\ \A i \in 1..Len(reactor), j \in 1..Len(reactor) :
              i # j => CubesOf(reactor[i]) \cap CubesOf(reactor[j]) = {}
        /\ pc = "counted" =>
              Unwrap(activated)
                 = Cardinality(UNION {CubesOf(reactor[i]) : i \in 1..Len(reactor)})

(* the sample has been executed: the second and the fourth cuboid were    *)
(* switched on over cubes that were on already                            *)
C29_Witness ==
    /\ pc = "counted"
    /\ instructions = Sample
    /\ step = 4
    /\ Len(reactor) > 4
    /\ reactor[Len(reactor)] = Cube(10, 10)

----------------------------------------------------------------------------
(* Properties of the chunk parser (ChunkSpec) *)

Openers == {"(", "[", "{", "<"}

(* the character that closes an opener *)
Closes(c) ==
    CASE c = "(" -> ")"
      [] c = "[" -> "]"
      [] c = "{" -> "}"
      [] c = "<" -> ">"

(* text[i..j] is a sequence of closed chunks *)
RECURSIVE Balanced(_, _)
Balanced(i, j) ==
    \/ i > j
    \/ /\ text[i] \in Openers
       /\ \E k \in (i + 1)..j :
             /\ text[k] = Closes(text[i])
             /\ Balanced(i + 1, k - 1)
             /\ Balanced(k + 1, j)

(* the opener at j is still open after the first m characters *)
Open(j, m) ==
    /\ j <= m
    /\ text[j] \in Openers
    /\ ~\E k \in (j + 1)..m : text[k] = Closes(text[j]) /\ Balanced(j + 1, k - 1)

(* the opener at j is the most recently opened unclosed chunk after the   *)
(* first m characters                                                     *)
Innermost(j, m) == Open(j, m) /\ Balanced(j + 1, m)

(* the character at m is not an opener and does not close the innermost   *)
(* open chunk                                                             *)
Mismatch(m) ==
    /\ text[m] \notin Openers
    /\ \E j \in 1..(m - 1) : Innermost(j, m - 1) /\ text[m] # Closes(text[j])

(* the character at m is not an opener and no chunk is open *)
Stray(m) == text[m] \notin Openers /\ Balanced(1, m - 1)

Lowest(S) == CHOOSE m \in S : \A n \in S : m <= n

Mismatches == {m \in 1..Len(text) : Mismatch(m)}

Errors == {m \in 1..Len(text) : Mismatch(m) \/ Stray(m)}

(* the chunks an Incomplete carries are the openers still open, in order *)
CarriesOpen(carried) ==
    /\ Len(carried) = Cardinality({j \in 1..Len(text) : Open(j, Len(text))})
    /\ \A n \in 1..Len(carried) :
          \E j \in 1..Len(text) :
             /\ Open(j, Len(text))
             /\ Cardinality({i \in 1..j : Open(i, Len(text))}) = n
             /\ Closes(text[j]) = closing_char(carried[n].opening_char)

WrongClosingAt(m) ==
    \E j \in 1..(m - 1) :
        /\ Innermost(j, m - 1)
        /\ parse_result = Some(<<"WrongClosingChar", m, Closes(text[j]), text[m]>>)

(* C22: the parser stops at the first closing character that does not     *)
(* match the innermost open chunk and returns WrongClosingChar with its    *)
(* 1-based column, the expected closer and the character; Incomplete with  *)
(* the open chunks only at the end of a line without mismatch; Ok only     *)
(* when every chunk is closed                                              *)
C22_StopsAtFirstMismatch ==
    pc = "chunks_parsed" =>
        /\ Mismatches # {} => WrongClosingAt(Lowest(Mismatches))
        /\ Unwrap(parse_result)[1] = "Incomplete" =>
              /\ Mismatches = {}
              /\ column = Len(text)
              /\ ~Balanced(1, Len(text))
              /\ CarriesOpen(Unwrap(parse_result)[2])
        /\ Unwrap(parse_result)[1] = "Ok" => Balanced(1, Len(text))

(* the same with the third error: the parser stops at the first character *)
(* that is not an opener and either finds no chunk open, which is a       *)
(* WrongOpeningChar with its column, or does not close the innermost one  *)
C22_StopsAtFirstError ==
    pc = "chunks_parsed" =>
        IF Errors # {}
        THEN IF Stray(Lowest(Errors))
             THEN parse_result
                     = Some(<<"WrongOpeningChar", Lowest(Errors), text[Lowest(Errors)]>>)
             ELSE WrongClosingAt(Lowest(Errors))
        ELSE IF Balanced(1, Len(text))
             THEN Unwrap(parse_result)[1] = "Ok" /\ opened_chunks = <<>>
             ELSE /\ Unwrap(parse_result)[1] = "Incomplete"
                  /\ column = Len(text)
                  /\ CarriesOpen(Unwrap(parse_result)[2])

(* the third line of the sample fails on column 13 *)
C22_Witness ==
    /\ pc = "chunks_parsed"
    /\ Len(text) = 24
    /\ text[13] = "}"
    /\ parse_result = Some(<<"WrongClosingChar", 13, "]", "}">>)

(* the first line of the sample is incomplete *)
C22_WitnessIncomplete ==
    /\ pc = "chunks_parsed"
    /\ Len(text) = 24
    /\ text[1] = "["
    /\ Unwrap(parse_result)[1] = "Incomplete"
    /\ Len(Unwrap(parse_result)[2]) = 8

----------------------------------------------------------------------------
(* Properties of the bingo games (BingoSpec) *)

Drawn(n) == {drawn_numbers[k] : k \in 1..n}

(* the numbers of the lines and of the columns of an input board *)
LinesOf(b) ==
    {{b[y][x].number : x \in DOMAIN b[y]} : y \in DOMAIN b}
        \cup {{b[y][x].number : y \in DOMAIN b} : x \in DOMAIN b}

Complete(b, n) == \E l \in LinesOf(b) : l \subseteq Drawn(n)

(* the draw on which input board i wins, 0 when it never does *)
WinDraw(i) ==
    IF \E n \in 1..Len(drawn_numbers) : Complete(board_input[i], n)
    THEN CHOOSE n \in 1..Len(drawn_numbers) :
            /\ Complete(board_input[i], n)
            /\ \A k \in 1..(n - 1) : ~Complete(board_input[i], k)
    ELSE 0

Winners == {i \in DOMAIN board_input : WinDraw(i) > 0}

(* input board i as it is when it wins *)
StateAtWin(i) ==
    Board(i, [y \in DOMAIN board_input[i] |->
                [x \in DOMAIN board_input[i][y] |->
                    [number |-> board_input[i][y][x].number,
                     marked |-> board_input[i][y][x].number \in Drawn(WinDraw(i))]]])

Returns(i) ==
    play_result = Some(<<StateAtWin(i), drawn_numbers[WinDraw(i)]>>)

(* C23: play_to_end returns a board that wins on the latest winning draw, *)
(* with the number of that draw and in its state at that draw; no board   *)
(* is reported twice and a board that has won is no longer played;        *)
(* play_to_first_win returns the first board in input order that wins on  *)
(* the earliest winning draw; both return None when no board ever wins    *)
C23_LastAndFirstWinner ==
    /\ pc \in {"bingo", "bingo_played"} =>
          /\ \A a, b \in DOMAIN wins : wins[a][1] = wins[b][1] => a = b
          /\ play_mode = "end" =>
                \A k \in DOMAIN boards : \A a \in DOMAIN wins :
                    boards[k].origin # wins[a][1]
    /\ pc = "bingo_played" =>
          IF Winners = {} THEN play_result = None
          ELSE IF play_mode = "end"
               THEN \E i \in Winners :
                       /\ \A j \in Winners : WinDraw(j) <= WinDraw(i)
                       /\ Returns(i)
               ELSE \E i \in Winners :
                       /\ \A j \in Winners : WinDraw(i) <= WinDraw(j)
                       /\ \A j \in Winners : WinDraw(j) = WinDraw(i) => i <= j
                       /\ Returns(i)

(* the sample played to the end: the second board wins last, on 13, with  *)
(* the score 1924                                                         *)
C23_Witness ==
    /\ pc = "bingo_played"
    /\ play_mode = "end"
    /\ drawn_numbers = SampleDraws
    /\ Len(wins) = 3
    /\ Unwrap(play_result)[1].origin = 2
    /\ Unwrap(play_result)[2] = 13
    /\ total(unmarked_numbers(Unwrap(play_result)[1])) * 13 = 1924

(* the sample played to the first win: the third board wins on 24, 4512 *)
C23_WitnessFirst ==
    /\ pc = "bingo_played"
    /\ play_mode = "first_win"
    /\ drawn_numbers = SampleDraws
    /\ Unwrap(play_result)[1].origin = 3
    /\ total(unmarked_numbers(Unwrap(play_result)[1])) * Unwrap(play_result)[2] = 4512

(* two boards win on the same draw, the last winning one: the first of    *)
(* them in input order is returned                                        *)
C23_WitnessTie ==
    /\ pc = "bingo_played"
    /\ play_mode = "end"
    /\ Len(board_input) = 2
    /\ board_input[1] # board_input[2]
    /\ WinDraw(1) > 0
    /\ WinDraw(1) = WinDraw(2)
    /\ Unwrap(play_result)[1].origin = 1

(* none of the boards wins *)
C23_WitnessNone ==
    /\ pc = "bingo_played"
    /\ board_input # <<>>
    /\ drawn_numbers # <<>>
    /\ play_result = None

----------------------------------------------------------------------------
(* Properties of the diagnostic ratings (DiagnosticSpec) *)

(* a non-empty list of pairwise different binary strings of one length *)
DistinctReport ==
    /\ diagnostic_report # <<>>
    /\ \A i, j \in DOMAIN diagnostic_report :
          /\ Len(diagnostic_report[i]) = Len(diagnostic_report[j])
          /\ diagnostic_report[i] = diagnostic_report[j] => i = j

(* C24: on a non-empty list of pairwise different binary strings of one   *)
(* length neither rating panics, the list of candidates never becomes     *)
(* empty, and the value returned is the decimal value of the one          *)
(* candidate that remains                                                 *)
C24_RatingsNeverPanic ==
    (pc \in {"finding", "panicked", "found_number"} /\ DistinctReport) =>
        /\ pc # "panicked"
        /\ numbers # <<>>
        /\ pc = "found_number" =>
              Len(numbers) = 1 /\ rating = Some(to_decimal(numbers[1]))

(* the same of the oxygen generator rating alone *)
C24_OxygenNeverPanics ==
    (pc \in {"finding", "panicked", "found_number"} /\ DistinctReport
        /\ get_bit = "oxygen") =>
        /\ pc # "panicked"
        /\ numbers # <<>>
        /\ pc = "found_number" =>
              Len(numbers) = 1 /\ rating = Some(to_decimal(numbers[1]))

(* the ratings of the sample: 23 and 10 *)
C24_WitnessSample ==
    /\ pc = "found_number"
    /\ diagnostic_report = SampleReport
    /\ rating = Some(IF get_bit = "oxygen" THEN 23 ELSE 10)

(* the CO2 scrubber rating of 10, 11 panics on an empty list *)
C24_WitnessPanic ==
    /\ pc = "panicked"
    /\ get_bit = "co2"
    /\ diagnostic_report = << <<"1", "0">>, <<"1", "1">> >>
    /\ numbers = <<>>

----------------------------------------------------------------------------
(* Properties of the octopuses (OctopusSpec) *)

Stepped == pc = "octopuses" /\ step_count > 0

(* the octopuses that flashed during the last step *)
Flashed == UNION {flashing[i] : i \in DOMAIN flashing}

(* C25: after next_step on energies between 0 and 9 every energy is       *)
(* between 0 and 9 again, no octopus flashed twice, an octopus has the    *)
(* energy 0 exactly when it flashed, and the count returned is the number *)
(* of the octopuses that flashed                                          *)
C25_StepKeepsEnergies ==
    (Stepped /\ \A y \in DOMAIN before_step : \A x \in DOMAIN before_step[y] :
                    before_step[y][x] \in 0..9) =>
        /\ \A y \in DOMAIN octopuses : \A x \in DOMAIN octopuses[y] :
              /\ octopuses[y][x] \in 0..9
              /\ octopuses[y][x] = 0 <=> <<x - 1, y - 1>> \in Flashed
        /\ \A i, j \in DOMAIN flashing : i # j => flashing[i] \cap flashing[j] = {}
        /\ flashes = Cardinality(Flashed)

(* the small sample after one step: the nine octopuses of the middle      *)
(* have flashed, the one of the centre raised by its eight neighbours     *)
C25_Witness ==
    /\ Stepped
    /\ before_step = SmallSample
    /\ flashes = 9
    /\ octopuses = << <<3, 4, 5, 4, 3>>,
                      <<4, 0, 0, 0, 4>>,
                      <<5, 0, 0, 0, 5>>,
                      <<4, 0, 0, 0, 4>>,
                      <<3, 4, 5, 4, 3>> >>

(* the small sample after two steps *)
C25_WitnessStepTwo ==
    /\ Stepped
    /\ step_count = 2
    /\ flashes = 0
    /\ octopuses = << <<4, 5, 6, 5, 4>>,
                      <<5, 1, 1, 1, 5>>,
                      <<6, 1, 1, 1, 6>>,
                      <<5, 1, 1, 1, 5>>,
                      <<4, 5, 6, 5, 4>> >>

----------------------------------------------------------------------------
(* Properties of the loop of normalize_scanners, continued (Spec) *)

(* what find_common_beacons gives for s against each resolved scanner *)
MatchesOf(s) ==
    [k \in 1..Len(normalized_scanners) |-> find_common_beacons(s, normalized_scanners[k])]

(* the iteration on s, whose matches are these, has called                *)
(* find_common_beacons up to the first resolved scanner that matches, has *)
(* searched a transformation for that correspondence alone and, when      *)
(* there is none, has pushed s back                                       *)
FirstMatchOnly(s, matches) ==
    IF \A k \in DOMAIN matches : ~IsSome(matches[k])
    THEN /\ result' = None
         /\ Len(tried') = Len(normalized_scanners)
         /\ normalized_scanners' = normalized_scanners
         /\ to_normalize' = Append(Tail(to_normalize), s)
    ELSE \E at \in DOMAIN matches :
            /\ IsSome(matches[at])
            /\ \A k \in 1..(at - 1) : ~IsSome(matches[k])
            /\ Len(tried') = at
            /\ result' = matches[at]
            /\ \E o \in Orders :
                  transformation' = find_matching_transformation(Unwrap(matches[at]), o)
            /\ ~IsSome(transformation') =>
                  /\ normalized_scanners' = normalized_scanners
                  /\ to_normalize' = Append(Tail(to_normalize), s)

(* C26: the transformation is searched only for the correspondence with   *)
(* the first resolved scanner, in resolution order, that matches the      *)
(* popped scanner; when that search fails the scanner is pushed back and  *)
(* no later resolved scanner is tried                                     *)
C26_FirstMatchWins ==
    [][(pc = "loop" /\ to_normalize # <<>>) =>
          Value(MatchesOf(Head(to_normalize)),
                LAMBDA matches : FirstMatchOnly(Head(to_normalize), matches))
      ]_vars

(* a scanner is pushed back after a match without transformation, with a  *)
(* later resolved scanner that would have given one                       *)
C26_Witness ==
    /\ pc = "loop"
    /\ IsSome(scanner)
    /\ IsSome(result)
    /\ ~IsSome(transformation)
    /\ Len(tried) < Len(normalized_scanners)
    /\ Last(to_normalize) = Unwrap(scanner)
    /\ \E j \in (Len(tried) + 1)..Len(normalized_scanners) :
          Attempt(Unwrap(scanner), normalized_scanners[j]).succeeds

(* the number of beacons of s whose fingerprint is d *)
Bearing(s, d) == Cardinality({b \in DOMAIN s.beacons : s.beacons[b] = d})

(* n has as many beacons as s, with the same fingerprints *)
SameFingerprints(n, s) ==
    /\ Cardinality(DOMAIN n.beacons) = Cardinality(DOMAIN s.beacons)
    /\ \A d \in {n.beacons[b] : b \in DOMAIN n.beacons}
                  \cup {s.beacons[b] : b \in DOMAIN s.beacons} :
          Bearing(n, d) = Bearing(s, d)

(* the places of the two pools, the resolved ones first *)
Places == 1..(Len(normalized_scanners) + Len(to_normalize))

(* input scanner i is the one at place k *)
Holds(k, i) ==
    IF k <= Len(normalized_scanners)
    THEN SameFingerprints(normalized_scanners[k], scanners[i])
    ELSE to_normalize[k - Len(normalized_scanners)] = scanners[i]

(* C27: at every iteration of the loop each input scanner is in one of    *)
(* the two pools exactly once: the pools hold as many scanners as the     *)
(* input, a pending scanner is an input scanner, a resolved scanner has   *)
(* the number of beacons and the fingerprints of an input scanner, and    *)
(* no input scanner stands for two of them                                *)
C27_EveryScannerAccounted ==
    pc \in {"loop", "done"} =>
        /\ Len(normalized_scanners) + Len(to_normalize) = Len(scanners)
        /\ \E f \in [1..Len(scanners) -> Places] :
              /\ \A i, j \in 1..Len(scanners) : f[i] = f[j] => i = j
              /\ \A i \in 1..Len(scanners) : Holds(f[i], i)

(* two scanners are resolved, the second one moved, and the third has     *)
(* been pushed back                                                       *)
C27_Witness ==
    /\ pc = "loop"
    /\ Len(scanners) = 3
    /\ Len(normalized_scanners) = 2
    /\ normalized_scanners[2].position # Origin
    /\ \A i \in 1..3 : normalized_scanners[2].beacons # scanners[i].beacons
    /\ IsSome(scanner)
    /\ to_normalize = <<Unwrap(scanner)>>


----------------------------------------------------------------------------
(* Properties of the matcher, continued (MatchSpec) *)

OneToOne(map) == \A a, b \in DOMAIN map : map[a] = map[b] => a = b

Returned == pc \in {"matched", "reversed", "searched"} /\ IsSome(fwd.returned)

(* C28: a correspondence returned by find_common_beacons sends no two     *)
(* beacons of the first scanner to the same beacon of the second          *)
C28_OneToOne == Returned => OneToOne(Unwrap(fwd.returned))

(* the same when no beacon of the second scanner has two candidates in    *)
(* the first                                                              *)
C28_OneToOneWhenUnambiguous ==
    (Returned /\ AtMostOneCandidate(other, self)) => OneToOne(Unwrap(fwd.returned))

(* the scanner that sees both mirror twins against the one that sees one  *)
(* of them: fourteen entries, thirteen beacons of the second scanner      *)
C28_WitnessTwins ==
    /\ Returned
    /\ Cardinality(DOMAIN Unwrap(fwd.returned)) = 14
    /\ Cardinality({Unwrap(fwd.returned)[a] : a \in DOMAIN Unwrap(fwd.returned)}) = 13

(* a correspondence of thirteen entries that is one to one *)
C28_WitnessOneToOne ==
    /\ Returned
    /\ AtMostOneCandidate(other, self)
    /\ Cardinality(DOMAIN Unwrap(fwd.returned)) = 13
    /\ Cardinality({Unwrap(fwd.returned)[a] : a \in DOMAIN Unwrap(fwd.returned)}) = 13



====
